---- MODULE Spec2Model ----
(***************************************************************************)
(* Model of the basket task envelope (basket/news/tasks.py: et_task,       *)
(* get_lock, the Celery signal handlers) and of the CTMS backend           *)
(* (basket/news/backends/ctms.py: CTMSSession, CTMSInterface, CTMS and the *)
(* schema mapping from_vendor / to_vendor).                                *)
(*                                                                         *)
(* One task invocation is a record of `task`.  Celery is the scheduler:    *)
(* it delivers a submitted invocation or a scheduled retry to a worker,    *)
(* which runs `wrapped` from its first line.  Time is a discrete clock     *)
(* `now`; a cache entry lives until its expiry instant.  The countdown of  *)
(* a retry is recorded, its delivery may happen at any later moment.       *)
(***************************************************************************)
EXTENDS Integers, Sequences, FiniteSets, TLC

VARIABLES
    settings,    \* django.conf.settings, the flags the envelope reads
    task,        \* the task invocations known to Celery
    cache,       \* django cache: lock entries, expiry instant per lock key
    now,         \* the clock
    QueuedTask,  \* rows of the QueuedTask table
    FailedTask,  \* rows of the FailedTask table
    ctms,        \* one CTMSSession, its OAuth2 session and the token cache
    mapper,      \* the last call of from_vendor / to_vendor
    resolver,    \* one call of CTMS.get or of a CTMSInterface operation
    vendor,      \* what SFDC and SFMC hold, and their latest answer
    upsert,      \* one task over its attempts, with its argument object
    sfmc,        \* the ETRefreshClient of each process and the token cache
    sqs          \* the FxA events queue and what its consumer did

vars == <<settings, task, cache, now, QueuedTask, FailedTask, ctms,
          mapper, resolver, vendor, upsert, sfmc, sqs>>
envVars == <<settings, task, cache, now, QueuedTask, FailedTask>>

-----------------------------------------------------------------------------
(* Bounds *)

MaxTime == 3
TASK_LOCK_TIMEOUT == 2

(* Program constants *)

max_retries == 11

Tasks == {1, 2}
None == "None"

(* None where the value is otherwise a record *)
Nil == [nil |-> TRUE]

(* no exception *)
NoExc == [type |-> "None", msg |-> <<>>]

(* no call made yet *)
NoCall == [op |-> "None"]

(* SFDC and SFMC hold nothing and were not called. *)
NoVendor ==
    [ contacts |-> <<>>,         \* the SFDC contacts, by email
      opportunity |-> <<>>,      \* transaction ids of the SFDC opportunities
      campaign_member |-> <<>>,  \* <<campaign, contact>> of the signatures
      FXA_EmailUpdated |-> <<>>, \* rows of the SFMC data extension
      delayed |-> <<>>,          \* tasks queued with .delay
      answer |-> [type |-> "None", by |-> <<>>] ]
                                 \* latest answer of a create, and to whom

-----------------------------------------------------------------------------
(* Strings the code searches in are sequences of words. *)

Contains(msg, pat) ==
    \E i \in 1..(Len(msg) - Len(pat) + 1) :
        SubSeq(msg, i, i + Len(pat) - 1) = pat

IGNORE_ERROR_MSGS ==
    { <<"InvalidEmailAddress">>,
      <<"An", "invalid", "phone", "number", "was", "provided">> }

IGNORE_ERROR_MSGS_POST_RETRY ==
    { <<"There", "are", "no", "valid", "subscribers">> }

MAINTENANCE_EXEMPT ==
    { <<"news", "tasks", "add_sms_user">>,
      <<"news", "tasks", "add_sms_user_optin">> }

ignore_error(exc, to_ignore) ==
    \E ignore_msg \in to_ignore : Contains(exc.msg, ignore_msg)

(* a never-retry check against the wrong list *)
ignore_error_wrong_list(exc) ==
    ignore_error(exc, IGNORE_ERROR_MSGS_POST_RETRY)

(* ignore_error(e) with its default to_ignore=IGNORE_ERROR_MSGS *)
ignore_error_default(exc) == ignore_error(exc, IGNORE_ERROR_MSGS)

ignore_error_post_retry(exc) == ignore_error(exc, IGNORE_ERROR_MSGS_POST_RETRY)

(* an except clause that also catches BasketError *)
TransientTypesTooWide ==
    { "IOError", "NewsletterException", "RequestException", "RetryTask",
      "SalesforceExpiredSession", "SalesforceGeneralError",
      "SalesforceRefusedRequest", "SalesforceResourceNotFound",
      "SalesforceAuthenticationFailed", "SalesforceMalformedRequest",
      "BasketError" }

(* The exception classes caught by the envelope. *)
TransientTypes ==
    { "IOError", "NewsletterException", "RequestException", "RetryTask",
      "SalesforceExpiredSession", "SalesforceGeneralError",
      "SalesforceRefusedRequest", "SalesforceResourceNotFound",
      "SalesforceAuthenticationFailed", "SalesforceMalformedRequest" }

-----------------------------------------------------------------------------
(* Tasks *)

full_task_name(func) == <<"news", "tasks", func>>

SnitchName == <<"basket", "news", "tasks", "snitch">>

EtTaskFuncs ==
    { "upsert_user", "confirm_user", "send_message", "add_sms_user",
      "fxa_verified" }

LockingFuncs == { "upsert_user", "confirm_user" }

TaskNames == { full_task_name(f) : f \in EtTaskFuncs } \cup { SnitchName }

LockingNames == { full_task_name(f) : f \in LockingFuncs }

(* et_tasks whose body is followed statement by statement *)
VendorTaskFuncs ==
    { "fxa_email_changed", "process_donation", "process_petition_signature",
      "process_donation_event" }

IsEtTask(name) ==
    name \in { full_task_name(f) : f \in EtTaskFuncs \cup VendorTaskFuncs }

EndsWithSnitch(name) == name[Len(name)] = "snitch"

ArgSet ==
    { [email |-> "a@example.com", token |-> "T1"],
      [email |-> "",              token |-> "T1"],
      [email |-> "",              token |-> "T2"] }

(* The key a locking task passes to get_lock. *)
LockArg(name, args) ==
    IF name = full_task_name("upsert_user")
    THEN IF args.email # "" THEN args.email ELSE args.token
    ELSE args.token

lock_key(prefix, key) == <<"basket", prefix, key>>

LockKeys == { lock_key("task", k) : k \in {"a@example.com", "T1", "T2"} }

NoLockMsg == <<"Could", "not", "acquire", "lock">>

(* get_lock raising an error the envelope does not retry *)
BasketErrorNoLock == [type |-> "BasketError", msg |-> NoLockMsg]

RetryTaskNoLock == [type |-> "RetryTask", msg |-> NoLockMsg]

(* the error of apply_updates raised as it is *)
update_fxa_info_unconverted(e) == e

(* what _update_fxa_info raises when apply_updates raises e,
   tasks.py:344-356 *)
update_fxa_info(e) ==
    IF e.type = "NewsletterException"
    THEN [type |-> "RetryTask", msg |-> e.msg]
    ELSE e

(* What the body of each task can raise. *)
BodyErrors(name) ==
    IF name = SnitchName THEN
        { [type |-> "RequestException", msg |-> <<"connection", "refused">>],
          [type |-> "TypeError",        msg |-> <<"unsupported", "operand">>] }
    ELSE IF name = full_task_name("send_message") THEN
        { [type |-> "NewsletterException",
           msg |-> <<"Error", "InvalidEmailAddress">>],
          [type |-> "NewsletterException",
           msg |-> <<"There", "are", "no", "valid", "subscribers">>],
          [type |-> "NewsletterException",
           msg |-> <<"There", "are", "no", "valid", "subscribers",
                     "InvalidEmailAddress">>],
          [type |-> "NewsletterException", msg |-> <<"Server", "Error">>] }
    ELSE IF name = full_task_name("add_sms_user") THEN
        { [type |-> "NewsletterException",
           msg |-> <<"SFMC", "Request", "Error:", "An", "invalid", "phone",
                     "number", "was", "provided">>],
          [type |-> "IOError", msg |-> <<"timed", "out">>] }
    ELSE IF name = full_task_name("confirm_user") THEN
        { [type |-> "BasketError",
           msg |-> <<"token", "has", "no", "email", "in", "ET">>],
          [type |-> "SalesforceGeneralError", msg |-> <<"Server", "Error">>] }
    ELSE IF name = full_task_name("fxa_verified") THEN
        { update_fxa_info(e) : e \in
            { [type |-> "NewsletterException", msg |-> <<"Server", "Error">>],
              [type |-> "NewsletterException",
               msg |-> <<"There", "are", "no", "valid", "subscribers">>],
              [type |-> "IOError", msg |-> <<"timed", "out">>] } }
    ELSE
        { [type |-> "IOError", msg |-> <<"timed", "out">>] }

-----------------------------------------------------------------------------
(* CTMSSession, backends/ctms.py *)

Statuses == {200, 401, 404, 500}
(* Tokens the /token endpoint can issue. *)
OAuthTokens ==
    { [access_token |-> "a.long.base64.string", expires_in |-> 3600],
      [access_token |-> "a.different.base64.string", expires_in |-> 7200],
      [access_token |-> "a.short.lived.string", expires_in |-> 61],
      [access_token |-> "a.one.second.string", expires_in |-> 1],
      [access_token |-> "no.lifetime.string"] }

(* the token cached for its whole declared lifetime *)
TokenTimeoutNoMargin(token) ==
    IF "expires_in" \in DOMAIN token THEN token.expires_in ELSE 60

(* int(expires_in * 0.95) *)
TokenTimeout(token) ==
    LET expires_in == IF "expires_in" \in DOMAIN token
                      THEN token.expires_in ELSE 60
    IN  (expires_in * 95) \div 100

(* save_token: the cache entry written under token_cache_key *)
save_token(token) ==
    [key |-> "ctms_token", token |-> token, timeout |-> TokenTimeout(token)]

urljoin(base, path) == <<base, path>>

(* A CTMSSession right after __init__, with the shared cache entry c. *)
CtmsNew(c) ==
    [ cache |-> c,          \* entry of the shared cache under the token key
      session |-> Nil,      \* the cached _session property: the token of the
                            \* OAuth2Session, Nil while not yet built
      pc |-> "idle",        \* position inside request()
      req |-> Nil,          \* the request the caller asked for
      sent |-> <<>>,        \* session.request calls of this call
      statuses |-> <<>>,    \* their response statuses
      fetches |-> 0,        \* fetch_token calls of this call
      written |-> <<>>,    \* entries this call wrote with cache.set
      built |-> FALSE,      \* this call had to authorize a new session
      result |-> Nil ]      \* what the caller gets


-----------------------------------------------------------------------------
(* State *)

NewTask(name, args) ==
    [ name |-> name, args |-> args,
      pc |-> "PENDING",        \* position of the invocation
      at |-> None,             \* while running: "get_lock" or "body"
      retries |-> 0,           \* self.request.retries
      executions |-> 0,        \* times the body (get_lock included) started
      exc |-> NoExc,            \* exception raised by the latest attempt
      countdown |-> 0,         \* countdown of the latest scheduled retry
      reports |-> <<>>,        \* sentry captureException calls, this attempt
      vendorCalled |-> FALSE,  \* the body reached its vendor call, this attempt
      lockedAt |-> -1,         \* instant of this attempt's successful get_lock
      state |-> "PENDING" ]    \* the state Celery records for the task

AbsentTask == [ NewTask(SnitchName, [email |-> "", token |-> ""])
                    EXCEPT !.pc = "absent", !.state = "absent" ]

EmptyCache == [k \in LockKeys |-> 0]

SettingsSet ==
    [ MAINTENANCE_MODE : BOOLEAN, READ_ONLY_MODE : BOOLEAN,
      TASK_LOCKING_ENABLE : BOOLEAN, STORE_TASK_FAILURES : BOOLEAN ]


(* One invocation of any task; the lock of key T1 may be held by another  *)
(* invocation that took it just before.                                   *)
Init ==
    /\ settings \in SettingsSet
    /\ \E name \in TaskNames, args \in {a \in ArgSet : a.token = "T1"} :
          task = [t \in Tasks |-> IF t = 1 THEN NewTask(name, args)
                                  ELSE AbsentTask]
    /\ cache \in { EmptyCache,
                   [EmptyCache EXCEPT ![lock_key("task", "T1")] =
                                              TASK_LOCK_TIMEOUT] }
    /\ now = 0
    /\ sfmc = NoCall
    /\ sqs = NoCall
    /\ QueuedTask = <<>>
    /\ FailedTask = <<>>
    /\ ctms = CtmsNew(Nil)
    /\ mapper = NoCall
    /\ resolver = NoCall
    /\ vendor = NoVendor
    /\ upsert = NoCall

(* Two invocations of locking tasks on parallel workers. *)
InitLock ==
    /\ settings = [ MAINTENANCE_MODE |-> FALSE, READ_ONLY_MODE |-> FALSE,
                    TASK_LOCKING_ENABLE |-> TRUE,
                    STORE_TASK_FAILURES |-> TRUE ]
    /\ \E a1 \in ArgSet, n2 \in LockingNames,
          a2 \in {a \in ArgSet : a.token = "T1"} :
          task = [t \in Tasks |->
                    IF t = 1 THEN NewTask(full_task_name("upsert_user"), a1)
                    ELSE NewTask(n2, a2)]
    /\ cache = EmptyCache
    /\ now = 0
    /\ sfmc = NoCall
    /\ sqs = NoCall
    /\ QueuedTask = <<>>
    /\ FailedTask = <<>>
    /\ ctms = CtmsNew(Nil)
    /\ mapper = NoCall
    /\ resolver = NoCall
    /\ vendor = NoVendor
    /\ upsert = NoCall

-----------------------------------------------------------------------------
(* The envelope *)

(* a gate that ignores MAINTENANCE_EXEMPT *)
MaintenanceGateNoExempt(name) == settings.MAINTENANCE_MODE

(* tasks.py:158 *)
MaintenanceGate(name) ==
    settings.MAINTENANCE_MODE /\ name \notin MAINTENANCE_EXEMPT

(* a cap that is off by one *)
RetryAllowedOffByOne(retries) == ~(retries > max_retries)

(* Celery Task.retry: refuses once request.retries + 1 exceeds max_retries *)
RetryAllowed(retries) == ~(retries + 1 > max_retries)

retry_countdown(retries) == (2 ^ (retries + 1)) * 60

(* An exception leaves the task: Celery marks the failure. *)
Propagate(r, e) ==
    [r EXCEPT !.pc = "failed_fatal", !.at = None, !.exc = e,
              !.lockedAt = -1, !.state = "FAILURE"]

(* The except clause of wrapped, tasks.py:174-196. *)
Envelope(r, e) ==
    IF e.type \notin TransientTypes THEN Propagate(r, e)
    ELSE IF ignore_error_default(e) THEN
        [r EXCEPT !.pc = "failed_ignored", !.at = None, !.exc = e,
                  !.lockedAt = -1, !.state = "SUCCESS"]
    ELSE
        LET retried == IF ~(e.type = "RetryTask" \/ ignore_error_post_retry(e))
                       THEN <<"retried">> ELSE <<>>
        IN  IF RetryAllowed(r.retries) THEN
                [r EXCEPT !.pc = "retry_scheduled", !.at = None, !.exc = e,
                          !.lockedAt = -1, !.state = "RETRY",
                          !.reports = retried,
                          !.retries = r.retries + 1,
                          !.countdown = retry_countdown(r.retries)]
            ELSE IF ignore_error_post_retry(e) THEN
                [r EXCEPT !.pc = "failed_ignored", !.at = None, !.exc = e,
                          !.lockedAt = -1, !.state = "SUCCESS",
                          !.reports = retried]
            ELSE
                [r EXCEPT !.pc = "failed_fatal", !.at = None, !.exc = e,
                          !.lockedAt = -1, !.state = "SUCCESS",
                          !.reports = retried \o <<"untagged">>]

(* tasks.py:110-124 *)
on_task_failure(t, r) ==
    IF ~EndsWithSnitch(r.name) /\ settings.STORE_TASK_FAILURES
    THEN Append(FailedTask, [task_id |-> t, name |-> r.name,
                             args |-> r.args, exc |-> r.exc])
    ELSE FailedTask

(* Exception e leaves the body of invocation t whose record is r. *)
Raise(t, r, e) ==
    LET r2 == IF IsEtTask(r.name) THEN Envelope(r, e) ELSE Propagate(r, e)
    IN  /\ task' = [task EXCEPT ![t] = r2]
        /\ FailedTask' = IF r2.state = "FAILURE" THEN on_task_failure(t, r2)
                         ELSE FailedTask

(* A worker runs wrapped from its first line. *)
Wrapped(t) ==
    LET r == task[t]
    IN  IF IsEtTask(r.name) /\ MaintenanceGate(r.name)
        THEN /\ QueuedTask' = IF ~settings.READ_ONLY_MODE
                              THEN Append(QueuedTask,
                                          [name |-> r.name, args |-> r.args])
                              ELSE QueuedTask
             /\ task' = [task EXCEPT ![t].pc = "maintenance_queued",
                                     ![t].state = "SUCCESS"]
        ELSE /\ QueuedTask' = QueuedTask
             /\ task' = [task EXCEPT
                    ![t].pc = "running",
                    ![t].at = IF r.name \in LockingNames THEN "get_lock"
                              ELSE "body",
                    ![t].executions = r.executions + 1,
                    ![t].exc = NoExc,
                    ![t].reports = <<>>,
                    ![t].vendorCalled = FALSE,
                    ![t].state = "STARTED"]

(* a finished invocation delivered once more *)
RedeliverableAfterFailure(t) ==
    task[t].pc \in {"retry_scheduled", "failed_fatal"}

Redeliverable(t) == task[t].pc = "retry_scheduled"

(* First delivery of a submitted invocation. *)
Execute(t) ==
    /\ task[t].pc = "PENDING"
    /\ Wrapped(t)
    /\ UNCHANGED <<settings, cache, now, FailedTask, ctms, mapper, resolver,
                 vendor, upsert, sfmc, sqs>>

(* Delivery of a scheduled retry, at some moment after its countdown. *)
Retry(t) ==
    /\ Redeliverable(t)
    /\ Wrapped(t)
    /\ UNCHANGED <<settings, cache, now, FailedTask, ctms, mapper, resolver,
                 vendor, upsert, sfmc, sqs>>

(* a cache.add that overwrites a live entry, like cache.set *)
cache_add_overwrites(k) == TRUE

(* django cache.add: stores only if no live entry exists *)
cache_add(k) == ~(cache[k] > now)

(* tasks.py:76-93 *)
GetLock(t) ==
    LET r == task[t]
        k == lock_key("task", LockArg(r.name, r.args))
    IN  /\ r.pc = "running" /\ r.at = "get_lock"
        /\ IF ~settings.TASK_LOCKING_ENABLE
           THEN /\ task' = [task EXCEPT ![t].at = "body"]
                /\ UNCHANGED <<cache, FailedTask>>
           ELSE IF cache_add(k)
           THEN /\ cache' = [cache EXCEPT ![k] = now + TASK_LOCK_TIMEOUT]
                /\ task' = [task EXCEPT ![t].at = "body", ![t].lockedAt = now]
                /\ UNCHANGED FailedTask
           ELSE /\ Raise(t, r, RetryTaskNoLock)
                /\ UNCHANGED cache
        /\ UNCHANGED <<settings, now, QueuedTask, ctms, mapper, resolver,
                 vendor, upsert, sfmc, sqs>>

(* a body that releases its lock when it returns *)
BodyReturnReleases(t) ==
    /\ task[t].pc = "running" /\ task[t].at = "body"
    /\ task' = [task EXCEPT ![t].pc = "success", ![t].at = None,
                            ![t].vendorCalled = TRUE, ![t].lockedAt = -1,
                            ![t].state = "SUCCESS"]
    /\ cache' = [cache EXCEPT
                   ![lock_key("task", LockArg(task[t].name, task[t].args))]
                       = 0]
    /\ UNCHANGED <<settings, now, QueuedTask, FailedTask, ctms, mapper,
                   resolver, vendor, upsert, sfmc, sqs>>

(* The body, vendor calls included, returns normally. *)
BodyReturn(t) ==
    /\ task[t].pc = "running" /\ task[t].at = "body"
    /\ task' = [task EXCEPT ![t].pc = "success", ![t].at = None,
                            ![t].vendorCalled = TRUE, ![t].lockedAt = -1,
                            ![t].state = "SUCCESS"]
    /\ UNCHANGED <<settings, cache, now, QueuedTask, FailedTask, ctms, mapper, resolver,
                 vendor, upsert, sfmc, sqs>>

(* The body raises. *)
BodyRaise(t) ==
    /\ task[t].pc = "running" /\ task[t].at = "body"
    /\ \E e \in BodyErrors(task[t].name) :
          Raise(t, [task[t] EXCEPT !.vendorCalled = TRUE], e)
    /\ UNCHANGED <<settings, cache, now, QueuedTask, ctms, mapper, resolver,
                 vendor, upsert, sfmc, sqs>>

(* Time passes; entries whose timeout elapsed leave the cache. *)
Tick ==
    /\ now < MaxTime
    /\ now' = now + 1
    /\ cache' = [k \in LockKeys |-> IF cache[k] <= now + 1 THEN 0 ELSE cache[k]]
    /\ UNCHANGED <<settings, task, QueuedTask, FailedTask, ctms, mapper, resolver,
                 vendor, upsert, sfmc, sqs>>

(* Operators switch maintenance mode by restarting the workers with the   *)
(* new setting; an invocation delivered afterwards reads the new value.   *)
ToggleMaintenance ==
    /\ \A t \in Tasks : task[t].pc # "running"
    /\ settings' = [settings EXCEPT !.MAINTENANCE_MODE = ~@]
    /\ UNCHANGED <<task, cache, now, QueuedTask, FailedTask, ctms, mapper, resolver,
                 vendor, upsert, sfmc, sqs>>

TaskStep(t) ==
    \/ Execute(t)
    \/ Retry(t)
    \/ GetLock(t)
    \/ BodyReturn(t)
    \/ BodyRaise(t)

Next ==
    \/ \E t \in Tasks : TaskStep(t)
    \/ Tick
    \/ ToggleMaintenance

Spec == Init /\ [][Next]_vars

NextLock ==
    \/ \E t \in Tasks : TaskStep(t)
    \/ Tick

SpecLock == InitLock /\ [][NextLock]_vars

(* A delivered invocation is executed and a blocking call returns. *)
FairSpec == Spec /\ \A t \in Tasks : WF_vars(TaskStep(t))

-----------------------------------------------------------------------------
(* Properties of the envelope *)

Terminal == {"success", "failed_ignored", "failed_fatal", "maintenance_queued"}

NoListMsg(e) ==
    ~ignore_error(e, IGNORE_ERROR_MSGS) /\ ~ignore_error_post_retry(e)

OnlyPostRetryMsg(e) ==
    ~ignore_error(e, IGNORE_ERROR_MSGS) /\ ignore_error_post_retry(e)

Backoff(n) == (2 ^ (n + 1)) * 60

(* C1: an et_task attempt that fails at retry count n with a transient-type
   error matching no ignore list schedules the next attempt with countdown
   2^(n+1)*60, larger than the previous countdown; at retry count 11 no
   attempt is scheduled and the invocation is recorded as failed (Celery
   state FAILURE and, when failures are stored, a FailedTask row). *)
C1_BackoffThenRecordedFailed ==
    [][ \A t \in Tasks :
          LET r == task[t]
              r2 == task'[t]
          IN  ( /\ IsEtTask(r.name)
                /\ r.pc = "running" /\ r2.pc # "running"
                /\ r2.exc.type \in TransientTypes
                /\ NoListMsg(r2.exc) )
              => IF r.retries < max_retries
                 THEN /\ r2.pc = "retry_scheduled"
                      /\ r2.retries = r.retries + 1
                      /\ r2.countdown = Backoff(r.retries)
                      /\ r2.countdown > r.countdown
                 ELSE /\ r2.pc # "retry_scheduled"
                      /\ r2.retries = r.retries
                      /\ r2.state = "FAILURE"
                      /\ settings.STORE_TASK_FAILURES =>
                            \E i \in 1..Len(FailedTask') :
                                FailedTask'[i].task_id = t
      ]_vars

InCS(t) ==
    /\ task[t].pc = "running" /\ task[t].at = "body"
    /\ task[t].name \in LockingNames

KeyOf(t) == LockArg(task[t].name, task[t].args)

(* C2 as stated: with locking enabled, no two invocations for the same key
   are at the same time between a successful get_lock and the end of their
   body. *)
C2_MutualExclusion ==
    settings.TASK_LOCKING_ENABLE =>
        \A t1, t2 \in Tasks :
            (t1 # t2 /\ InCS(t1) /\ InCS(t2)) => KeyOf(t1) # KeyOf(t2)

(* C2 amended: with locking enabled, two invocations for the same key are
   both between a successful get_lock and the end of their body only if
   their get_lock calls lie at least TASK_LOCK_TIMEOUT apart, that is the
   lock of the earlier one has expired. *)
C2_MutualExclusionUntilExpiry ==
    settings.TASK_LOCKING_ENABLE =>
        \A t1, t2 \in Tasks :
            (t1 # t2 /\ InCS(t1) /\ InCS(t2) /\ KeyOf(t1) = KeyOf(t2)) =>
                \/ task[t1].lockedAt + TASK_LOCK_TIMEOUT <= task[t2].lockedAt
                \/ task[t2].lockedAt + TASK_LOCK_TIMEOUT <= task[t1].lockedAt

C2_Witness ==
    \E t1, t2 \in Tasks :
        /\ t1 # t2 /\ InCS(t1) /\ InCS(t2) /\ KeyOf(t1) = KeyOf(t2)
        /\ settings.TASK_LOCKING_ENABLE

(* C34: a lock entry of the cache changes only when get_lock adds it, for
   TASK_LOCK_TIMEOUT from then, and when that time has elapsed: no end of a
   task body, by return or by error, removes it.  While it is held every
   get_lock for its key raises RetryTask, that of a retry of the invocation
   that holds it included, and once it has expired a get_lock for the key
   succeeds whatever the other invocations are doing. *)
C34_LockEndsByExpiry ==
    [][ /\ \A k \in LockKeys :
              cache'[k] # cache[k] =>
                  \/ /\ cache[k] = 0
                     /\ cache'[k] = now + TASK_LOCK_TIMEOUT
                     /\ now' = now
                  \/ /\ cache'[k] = 0
                     /\ now' = now + 1
                     /\ cache[k] <= now'
        /\ \A t \in Tasks :
              LET r == task[t]
                  r2 == task'[t]
                  k == lock_key("task", KeyOf(t))
              IN  /\ (r.pc = "running" /\ r.at = "body" /\ r2 # r) =>
                         cache' = cache
                  /\ ( /\ r.pc = "running" /\ r.at = "get_lock" /\ r2 # r
                       /\ settings.TASK_LOCKING_ENABLE ) =>
                         IF cache[k] > now
                         THEN r2.exc = RetryTaskNoLock /\ cache' = cache
                         ELSE /\ r2.pc = "running" /\ r2.at = "body"
                              /\ cache'[k] = now + TASK_LOCK_TIMEOUT
      ]_vars

C34_Witness ==
    \E t \in Tasks :
        /\ task[t].pc = "retry_scheduled"
        /\ task[t].exc = RetryTaskNoLock
        /\ task[t].retries = 2 /\ task[t].executions = 2
        /\ cache[lock_key("task", KeyOf(t))] > now
        /\ \A u \in Tasks \ {t} : task[u].pc = "PENDING"

(* C3: an et_task delivered while MAINTENANCE_MODE is on and whose name is
   not exempt does not run its body: nothing of the invocation changes but
   its position, the cache and FailedTask are untouched, no retry is
   scheduled, and exactly one QueuedTask row with its name and arguments is
   added unless READ_ONLY_MODE is on, when none is; an exempt task starts
   its body whatever MAINTENANCE_MODE is. *)
C3_MaintenanceGate ==
    [][ \A t \in Tasks :
          LET r == task[t]
              r2 == task'[t]
          IN  ( /\ IsEtTask(r.name)
                /\ r.pc \in {"PENDING", "retry_scheduled"}
                /\ r2.pc # r.pc )
              => IF settings.MAINTENANCE_MODE
                    /\ r.name \notin MAINTENANCE_EXEMPT
                 THEN /\ r2 = [r EXCEPT !.pc = "maintenance_queued",
                                        !.state = r2.state]
                      /\ r2.state # "RETRY"
                      /\ cache' = cache
                      /\ FailedTask' = FailedTask
                      /\ QueuedTask' =
                            IF settings.READ_ONLY_MODE THEN QueuedTask
                            ELSE Append(QueuedTask, [name |-> r.name,
                                                     args |-> r.args])
                 ELSE /\ r2.pc = "running"
                      /\ r2.executions = r.executions + 1
                      /\ QueuedTask' = QueuedTask
      ]_vars

C3_Witness ==
    \E t \in Tasks :
        /\ task[t].pc = "maintenance_queued"
        /\ task[t].executions = 0
        /\ QueuedTask = << [name |-> task[t].name, args |-> task[t].args] >>

(* C4: an attempt that fails with an error whose message contains an entry
   of IGNORE_ERROR_MSGS ends the invocation without a retry (retry count
   and countdown unchanged), without a sentry report and without a failure
   being recorded, at every retry count. *)
C4_NeverRetryList ==
    [][ \A t \in Tasks :
          LET r == task[t]
              r2 == task'[t]
          IN  ( /\ r.pc = "running" /\ r2.pc # "running"
                /\ r2.exc # NoExc
                /\ ignore_error(r2.exc, IGNORE_ERROR_MSGS) )
              => /\ r2.pc = "failed_ignored"
                 /\ r2.retries = r.retries
                 /\ r2.countdown = r.countdown
                 /\ r2.reports = <<>>
                 /\ r2.state = "SUCCESS"
                 /\ FailedTask' = FailedTask
      ]_vars

C4_Witness ==
    \E t \in Tasks :
        /\ task[t].pc = "failed_ignored"
        /\ task[t].retries > 0
        /\ task[t].exc.msg = <<"Error", "InvalidEmailAddress">>

(* C5: every invocation eventually reaches a terminal state, its body is
   started at most max_retries + 1 = 12 times, an attempt that fails at
   retry count 11 with a retryable error ends in a failed state, and a
   failed invocation never changes again. *)
C5_Terminates ==
    /\ \A t \in Tasks : <>(task[t].pc \in Terminal \cup {"absent"})
    /\ [](\A t \in Tasks : task[t].executions <= max_retries + 1)
    /\ [][ \A t \in Tasks :
             /\ ( /\ task[t].pc = "running" /\ task'[t].pc # "running"
                  /\ task'[t].exc # NoExc
                  /\ task[t].retries = max_retries )
                => task'[t].pc \in {"failed_ignored", "failed_fatal"}
             /\ task[t].pc \in {"failed_ignored", "failed_fatal"}
                => task'[t] = task[t]
         ]_vars

C5_Witness ==
    \E t \in Tasks :
        /\ task[t].pc = "failed_fatal"
        /\ task[t].retries = max_retries
        /\ task[t].executions = max_retries + 1
        /\ task[t].exc.type = "IOError"

ClaimedEdges ==
    { <<"PENDING", "maintenance_queued">>, <<"PENDING", "running">>,
      <<"running", "success">>, <<"running", "retry_scheduled">>,
      <<"retry_scheduled", "running">>, <<"running", "failed_ignored">>,
      <<"running", "failed_fatal">> }

(* C6 as stated: an invocation changes position only along PENDING ->
   maintenance_queued, PENDING -> running, running -> success, running ->
   retry_scheduled, retry_scheduled -> running, running -> failed_ignored,
   running -> failed_fatal. *)
C6_Transitions ==
    [][ \A t \in Tasks :
          task'[t].pc # task[t].pc =>
              <<task[t].pc, task'[t].pc>> \in ClaimedEdges
      ]_vars

(* C6 amended: the transitions are those of the claim and, in addition,
   retry_scheduled -> maintenance_queued (a retry delivered while
   maintenance mode is on is queued instead of run); success,
   failed_ignored, failed_fatal and maintenance_queued are terminal and
   retry_scheduled is entered only from running. *)
C6_TransitionsWithQueuedRetry ==
    [][ \A t \in Tasks :
          task'[t].pc # task[t].pc =>
              <<task[t].pc, task'[t].pc>> \in
                  ClaimedEdges \cup
                      { <<"retry_scheduled", "maintenance_queued">> }
      ]_vars

C6_Witness ==
    \E t \in Tasks :
        /\ task[t].pc = "maintenance_queued"
        /\ task[t].retries > 0
        /\ task[t].executions = task[t].retries

LockIsHeld(t) == cache[lock_key("task", KeyOf(t))] > now

(* C7 as stated: get_lock on a held lock raises RetryTask before any vendor
   call and the envelope schedules a retry with backoff, without a sentry
   report and without a failure; with TASK_LOCKING_ENABLE off get_lock
   succeeds and leaves the cache alone. *)
C7_LockHeldRetries ==
    [][ \A t \in Tasks :
          LET r == task[t]
              r2 == task'[t]
          IN  (r.pc = "running" /\ r.at = "get_lock" /\ r2 # r)
              => IF ~settings.TASK_LOCKING_ENABLE
                 THEN r2.pc = "running" /\ r2.at = "body" /\ cache' = cache
                 ELSE LockIsHeld(t) =>
                        /\ r2.exc = RetryTaskNoLock
                        /\ ~r2.vendorCalled
                        /\ cache' = cache
                        /\ r2.pc = "retry_scheduled"
                        /\ r2.retries = r.retries + 1
                        /\ r2.countdown = Backoff(r.retries)
                        /\ r2.reports = <<>>
                        /\ r2.state = "RETRY"
                        /\ FailedTask' = FailedTask
      ]_vars

(* C7 amended: get_lock on a held lock raises RetryTask before any vendor
   call; while the retry count is below 11 the envelope schedules a retry
   with backoff, without a sentry report and without a failure; at retry
   count 11 no retry is scheduled, the invocation ends and the error is
   reported to sentry.  With TASK_LOCKING_ENABLE off get_lock succeeds and
   leaves the cache alone. *)
C7_LockHeldRetriesBelowCap ==
    [][ \A t \in Tasks :
          LET r == task[t]
              r2 == task'[t]
          IN  (r.pc = "running" /\ r.at = "get_lock" /\ r2 # r)
              => IF ~settings.TASK_LOCKING_ENABLE
                 THEN r2.pc = "running" /\ r2.at = "body" /\ cache' = cache
                 ELSE LockIsHeld(t) =>
                        /\ r2.exc = RetryTaskNoLock
                        /\ ~r2.vendorCalled
                        /\ cache' = cache
                        /\ IF r.retries < max_retries
                           THEN /\ r2.pc = "retry_scheduled"
                                /\ r2.retries = r.retries + 1
                                /\ r2.countdown = Backoff(r.retries)
                                /\ r2.reports = <<>>
                                /\ r2.state = "RETRY"
                                /\ FailedTask' = FailedTask
                           ELSE /\ r2.pc \in Terminal
                                /\ r2.retries = r.retries
                                /\ Len(r2.reports) = 1
      ]_vars

C7_Witness ==
    \E t \in Tasks :
        /\ task[t].exc = RetryTaskNoLock
        /\ task[t].pc = "retry_scheduled"
        /\ ~task[t].vendorCalled
        /\ LockIsHeld(t)

BugErrorTypes == {"BasketError", "RuntimeError", "ValueError", "TypeError"}

(* C8: an error of a non-transient type raised in a task body is never
   retried: at any retry count the attempt ends the invocation as failed
   (Celery state FAILURE), retry count and countdown unchanged, and
   on_task_failure adds exactly one FailedTask row for it when
   STORE_TASK_FAILURES is on and the task name does not end in snitch, and
   none otherwise. *)
C8_NonTransientFatal ==
    [][ \A t \in Tasks :
          LET r == task[t]
              r2 == task'[t]
          IN  ( /\ r.pc = "running" /\ r2.pc # "running"
                /\ r2.exc.type \in BugErrorTypes )
              => /\ r2.pc = "failed_fatal"
                 /\ r2.retries = r.retries
                 /\ r2.countdown = r.countdown
                 /\ r2.state = "FAILURE"
                 /\ FailedTask' =
                       IF settings.STORE_TASK_FAILURES
                          /\ r.name # SnitchName
                       THEN Append(FailedTask,
                                   [task_id |-> t, name |-> r.name,
                                    args |-> r.args, exc |-> r2.exc])
                       ELSE FailedTask
                 /\ Cardinality({ i \in 1..Len(FailedTask') :
                                    FailedTask'[i].task_id = t }) <= 1
      ]_vars

C8_Witness ==
    \E t \in Tasks :
        /\ task[t].pc = "failed_fatal"
        /\ task[t].exc.type = "BasketError"
        /\ task[t].retries > 0
        /\ Len(FailedTask) = 1 /\ FailedTask[1].task_id = t

(* C9: a transient error whose message matches the post-retry list (and, by
   C4, not the never-retry list) is retried with the usual backoff and cap
   and, once retries are exhausted, ends the invocation without a sentry
   report; an exhausted transient error matching no list is reported
   exactly once in the attempt that exhausts the retries. *)
C9_PostRetryList ==
    [][ \A t \in Tasks :
          LET r == task[t]
              r2 == task'[t]
          IN  ( /\ IsEtTask(r.name)
                /\ r.pc = "running" /\ r2.pc # "running"
                /\ r2.exc.type \in TransientTypes )
              => /\ OnlyPostRetryMsg(r2.exc) =>
                        IF r.retries < max_retries
                        THEN /\ r2.pc = "retry_scheduled"
                             /\ r2.retries = r.retries + 1
                             /\ r2.countdown = Backoff(r.retries)
                        ELSE /\ r2.pc \in Terminal
                             /\ r2.reports = <<>>
                 /\ (NoListMsg(r2.exc) /\ r.retries = max_retries) =>
                        /\ r2.pc \in Terminal
                        /\ Len(r2.reports) = 1
      ]_vars

(* C36: when an attempt of an et_task ends with a transient error that is
   not on the never-retry list, a scheduled retry is reported to sentry
   once, tagged 'retried', unless the error is a RetryTask or matches the
   post-retry ignore list, when nothing is reported; a RetryTask that finds
   the retries exhausted is reported once, untagged, unless its message
   matches the post-retry ignore list, when nothing is reported.  fxa_verified
   never ends with a NewsletterException: _update_fxa_info raises it as a
   RetryTask with the same message. *)
C36_Reports ==
    [][ \A t \in Tasks :
          LET r == task[t]
              r2 == task'[t]
              e == r2.exc
              quiet == e.type = "RetryTask" \/ ignore_error_post_retry(e)
          IN  ( /\ r.pc = "running" /\ r2.pc # "running"
                /\ IsEtTask(r.name)
                /\ e.type \in TransientTypes
                /\ ~ignore_error_default(e) ) =>
                  /\ r2.pc = "retry_scheduled" =>
                        r2.reports = IF quiet THEN <<>> ELSE <<"retried">>
                  /\ r2.pc # "retry_scheduled" =>
                        /\ r.retries = max_retries
                        /\ e.type = "RetryTask" =>
                              r2.reports = IF ignore_error_post_retry(e)
                                           THEN <<>> ELSE <<"untagged">>
                  /\ r.name = full_task_name("fxa_verified") =>
                        e.type # "NewsletterException"
      ]_vars

C36_Witness ==
    /\ task[1].name = full_task_name("fxa_verified")
    /\ task[1].pc = "failed_fatal"
    /\ task[1].retries = max_retries
    /\ task[1].exc = [type |-> "RetryTask", msg |-> <<"Server", "Error">>]
    /\ task[1].reports = <<"untagged">>

-----------------------------------------------------------------------------
(* CTMSSession.request *)

InitCTMS ==
    LET
        CtmsCaches == { Nil } \cup { save_token(tk) : tk \in OAuthTokens }
    IN
        /\ settings = [ MAINTENANCE_MODE |-> FALSE, READ_ONLY_MODE |-> FALSE,
                        TASK_LOCKING_ENABLE |-> TRUE,
                        STORE_TASK_FAILURES |-> TRUE ]
        /\ task = [t \in Tasks |-> AbsentTask]
        /\ cache = EmptyCache
        /\ now = 0
        /\ sfmc = NoCall
        /\ sqs = NoCall
        /\ QueuedTask = <<>>
        /\ FailedTask = <<>>
        /\ ctms \in { CtmsNew(c) : c \in CtmsCaches }
        /\ mapper = NoCall
        /\ resolver = NoCall
        /\ vendor = NoVendor
        /\ upsert = NoCall

(* The caller enters request(method, path, ...). *)
CtmsRequest ==
    LET
        api_url == "https://ctms.example.com"

        Methods == {"GET", "POST", "PUT"}

        Paths == {"/ctms", "/ctms/some-email-id"}

        Params == { <<>>, <<"primary_email", "test@example.com">> }
    IN
        /\ ctms.pc \in {"idle", "returned", "raised"}
        /\ \E method \in Methods, path \in Paths, params \in Params :
              ctms' = [ctms EXCEPT !.pc = "session",
                                   !.req = [method |-> method,
                                            url |-> urljoin(api_url, path),
                                            params |-> params],
                                   !.sent = <<>>, !.statuses = <<>>,
                                   !.fetches = 0, !.written = <<>>,
                                   !.built = FALSE, !.result = Nil]
        /\ UNCHANGED <<envVars, mapper, resolver,
                     vendor, upsert, sfmc, sqs>>

(* session.fetch_token succeeded: the session and the cache get the token *)
Authorized(c, tk) ==
    [c EXCEPT !.session = tk, !.cache = save_token(tk),
              !.fetches = c.fetches + 1,
              !.written = Append(c.written, save_token(tk))]

(* session.fetch_token raised and the error was swallowed *)
FetchFailedSwallowed(c) ==
    [c EXCEPT !.pc = "send", !.fetches = c.fetches + 1]

(* session.fetch_token raised; the compliance hook raises on non-2xx *)
FetchFailed(c) ==
    [c EXCEPT !.pc = "raised", !.fetches = c.fetches + 1,
              !.result = [error |-> "HTTPError", from |-> "/token"]]

(* session = self._session, ctms.py:155-177 and 203 *)
CtmsGetSession ==
    /\ ctms.pc = "session"
    /\ IF ctms.session # Nil
       THEN ctms' = [ctms EXCEPT !.pc = "send"]
       ELSE IF ctms.cache # Nil
       THEN ctms' = [ctms EXCEPT !.pc = "send", !.session = ctms.cache.token]
       ELSE \/ \E tk \in OAuthTokens :
                  ctms' = [Authorized(ctms, tk) EXCEPT !.pc = "send",
                                                       !.built = TRUE]
            \/ ctms' = [FetchFailed(ctms) EXCEPT !.built = TRUE]
    /\ UNCHANGED <<envVars, mapper, resolver,
                 vendor, upsert, sfmc, sqs>>

(* re-authentication on the wrong status *)
AfterFirstResponse403(status) == IF status = 403 THEN "reauth" ELSE "returned"

(* what request() does with the first response, ctms.py:206-209 *)
AfterFirstResponse(status) == IF status = 401 THEN "reauth" ELSE "returned"

(* resp = session.request(method, url, ...), ctms.py:205 *)
CtmsSend ==
    /\ ctms.pc = "send"
    /\ \E status \in Statuses :
          ctms' = [ctms EXCEPT !.sent = Append(ctms.sent, ctms.req),
                               !.statuses = Append(ctms.statuses, status),
                               !.pc = AfterFirstResponse(status),
                               !.result = IF status = 401 THEN Nil
                                          ELSE [status |-> status]]
    /\ UNCHANGED <<envVars, mapper, resolver,
                 vendor, upsert, sfmc, sqs>>

(* self._session = self._authorize_session(session), ctms.py:207 *)
CtmsReauth ==
    /\ ctms.pc = "reauth"
    /\ \/ \E tk \in OAuthTokens :
             ctms' = [Authorized(ctms, tk) EXCEPT !.pc = "resend"]
       \/ ctms' = FetchFailed(ctms)
    /\ UNCHANGED <<envVars, mapper, resolver,
                 vendor, upsert, sfmc, sqs>>

(* resp = session.request(method, url, ...) again, ctms.py:208-209 *)
CtmsResend ==
    /\ ctms.pc = "resend"
    /\ \E status \in Statuses :
          ctms' = [ctms EXCEPT !.sent = Append(ctms.sent, ctms.req),
                               !.statuses = Append(ctms.statuses, status),
                               !.pc = "returned",
                               !.result = [status |-> status]]
    /\ UNCHANGED <<envVars, mapper, resolver,
                 vendor, upsert, sfmc, sqs>>

(* The timeout of the cache entry elapses between two calls. *)
CtmsCacheExpires ==
    /\ ctms.pc \in {"idle", "returned", "raised"}
    /\ ctms.cache # Nil
    /\ ctms' = [ctms EXCEPT !.cache = Nil]
    /\ UNCHANGED <<envVars, mapper, resolver,
                 vendor, upsert, sfmc, sqs>>

NextCTMS ==
    \/ CtmsRequest
    \/ CtmsGetSession
    \/ CtmsSend
    \/ CtmsReauth
    \/ CtmsResend
    \/ CtmsCacheExpires

SpecCTMS == InitCTMS /\ [][NextCTMS]_vars

-----------------------------------------------------------------------------
(* Properties of CTMSSession.request *)

CallEnded == ctms.pc \in {"returned", "raised"}

IsError(result) == "error" \in DOMAIN result

(* C10 as stated: when a call of request ends, at most two requests were
   sent; if the first response was 401 one token was fetched and saved and
   the same request was sent once more, a second authentication failure
   reaching the caller as an error; if the first response was not 401 one
   request was sent, no token fetched and the cache not written. *)
C10_ReauthOnce ==
    CallEnded =>
        /\ Len(ctms.sent) <= 2
        /\ (ctms.statuses # <<>> /\ ctms.statuses[1] = 401) =>
              /\ ctms.fetches = 1 /\ Len(ctms.written) = 1
              /\ Len(ctms.sent) = 2 /\ ctms.sent[2] = ctms.sent[1]
              /\ ctms.statuses[2] = 401 => IsError(ctms.result)
        /\ (ctms.statuses # <<>> /\ ctms.statuses[1] # 401) =>
              /\ Len(ctms.sent) = 1
              /\ ctms.fetches = 0 /\ ctms.written = <<>>

(* C10 amended: a call that has to authorize a new session (no token in the
   cache) first fetches and saves one token, or raises the fetch error
   without sending anything.  Beyond that: if the first response is not 401
   exactly one request is sent and nothing more is fetched or written; if it
   is 401 one more token is fetched, and either the fetch fails, its error
   propagates, no second request is sent and the cache is not written, or
   the new token is saved to the cache and the same request is sent exactly
   once more, its response being returned whatever its status, a second 401
   included.  No call sends more than two requests. *)
C10_ReauthOnceAmended ==
    CallEnded =>
        LET first == IF ctms.built THEN 1 ELSE 0
        IN  /\ Len(ctms.sent) <= 2
            /\ ctms.statuses = <<>> =>
                  /\ ctms.built /\ ctms.pc = "raised" /\ IsError(ctms.result)
                  /\ ctms.sent = <<>>
                  /\ ctms.fetches = 1 /\ ctms.written = <<>>
            /\ (ctms.statuses # <<>> /\ ctms.statuses[1] # 401) =>
                  /\ ctms.pc = "returned"
                  /\ ctms.sent = <<ctms.req>>
                  /\ ctms.result = [status |-> ctms.statuses[1]]
                  /\ ctms.fetches = first /\ Len(ctms.written) = first
            /\ (ctms.statuses # <<>> /\ ctms.statuses[1] = 401) =>
                  /\ ctms.fetches = first + 1
                  /\ IF ctms.pc = "raised"
                     THEN /\ IsError(ctms.result)
                          /\ ctms.sent = <<ctms.req>>
                          /\ Len(ctms.written) = first
                     ELSE /\ ctms.sent = <<ctms.req, ctms.req>>
                          /\ ctms.result = [status |-> ctms.statuses[2]]
                          /\ Len(ctms.written) = first + 1
                          /\ ctms.written[first + 1] = save_token(ctms.session)

C10_Witness ==
    /\ ctms.pc = "returned"
    /\ ctms.statuses = <<401, 401>>
    /\ ~ctms.built
    /\ ctms.fetches = 1 /\ Len(ctms.written) = 1

(* C11: every entry a call writes to the cache is stored under the key
   'ctms_token' with a timeout of 95% of the token's lifetime rounded down
   to whole seconds (3600 -> 3420, 7200 -> 6840, no expires_in counts as
   60), and for a positive lifetime the timeout is below the lifetime. *)
C11_TokenTimeout ==
    \A i \in 1..Len(ctms.written) :
        LET entry == ctms.written[i]
            declared == "expires_in" \in DOMAIN entry.token
            lifetime == IF declared THEN entry.token.expires_in ELSE 60
        IN  /\ entry.key = "ctms_token"
            /\ entry.timeout * 100 <= lifetime * 95
            /\ lifetime * 95 < (entry.timeout + 1) * 100
            /\ lifetime = 3600 => entry.timeout = 3420
            /\ lifetime = 7200 => entry.timeout = 6840
            /\ ~declared => entry.timeout = 57
            /\ lifetime > 0 => entry.timeout < lifetime
            /\ ctms.pc \in {"send", "resend"} /\ i = Len(ctms.written) =>
                   ctms.cache = entry

C11_Witness ==
    /\ Len(ctms.written) = 2
    /\ ctms.written[1].token.access_token = "a.short.lived.string"
    /\ ctms.written[1].timeout = 57
    /\ ctms.written[2].token.access_token = "a.one.second.string"
    /\ ctms.written[2].timeout = 0

(* C31: when the session is not yet built and the cache holds no token,
   getting the session fetches a token exactly once before any request is
   sent: either the token is saved to the cache and the call goes on to send
   its request, or the fetch error reaches the caller, no request is sent and
   nothing is written to the cache. *)
C31_FirstAuth ==
    [][ (ctms.pc = "session" /\ ctms.session = Nil /\ ctms.cache = Nil) =>
          /\ ctms'.fetches = 1
          /\ ctms'.sent = <<>>
          /\ \/ /\ ctms'.pc = "send"
                /\ ctms'.session # Nil
                /\ ctms'.written = <<save_token(ctms'.session)>>
                /\ ctms'.cache = save_token(ctms'.session)
             \/ /\ ctms'.pc = "raised"
                /\ ctms'.result = [error |-> "HTTPError", from |-> "/token"]
                /\ ctms'.written = <<>>
                /\ ctms'.cache = Nil
                /\ ctms'.session = Nil ]_vars

C31_Witness ==
    /\ ctms.pc = "raised"
    /\ ctms.built
    /\ ctms.fetches = 1
    /\ ctms.sent = <<>> /\ ctms.written = <<>> /\ ctms.cache = Nil

-----------------------------------------------------------------------------
(* Schema mapping between the CTMS nested format and the basket flat       *)
(* format.  A contact is a function from group names to groups, a group a  *)
(* function from field names to values.  A string value is the sequence of *)
(* its characters, so that stripping and truncating act on characters; a   *)
(* value carries its Python type as the name of its one field.             *)

S(chars) == [s |-> chars]
B(bool) == [b |-> bool]

(* a Python list and a Python dict (its items in insertion order) as the
   value of 'newsletters' *)
L(items) == [list |-> items]
D(items) == [dict |-> items]

(* the empty dict *)
EmptyDict == [k \in {} |-> Nil]

(* d[k] = v *)
Put(d, k, v) == [x \in DOMAIN d \cup {k} |-> IF x = k THEN v ELSE d[x]]

(* a dict with the items of both, those of g winning *)
Merge(f, g) ==
    [x \in DOMAIN f \cup DOMAIN g |-> IF x \in DOMAIN g THEN g[x] ELSE f[x]]

(* The groups of CTMS_TO_BASKET_NAMES: the basket name of each CTMS field,
   None for a field basket does not import. *)
AmoNames ==
    [ add_on_ids |-> None,
      display_name |-> "amo_display_name",
      email_opt_in |-> None,
      language |-> None,
      last_login |-> "amo_last_login",
      location |-> "amo_location",
      profile_url |-> "amo_homepage",
      user |-> "amo_user",
      user_id |-> "amo_id",
      username |-> None,
      create_timestamp |-> None,
      update_timestamp |-> None ]

EmailNames ==
    [ primary_email |-> "email",
      basket_token |-> "token",
      double_opt_in |-> "optin",
      sfdc_id |-> "id",
      first_name |-> "first_name",
      last_name |-> "last_name",
      mailing_country |-> "country",
      email_format |-> "format",
      email_lang |-> "lang",
      has_opted_out_of_email |-> "optout",
      unsubscribe_reason |-> "reason",
      email_id |-> "email_id",
      create_timestamp |-> "created_date",
      update_timestamp |-> "last_modified_date" ]

FxaNames ==
    [ fxa_id |-> "fxa_id",
      primary_email |-> "fxa_primary_email",
      created_date |-> "fxa_create_date",
      lang |-> "fxa_lang",
      first_service |-> "fxa_service",
      account_deleted |-> "fxa_deleted" ]

MofoNames ==
    [ mofo_email_id |-> None,
      mofo_contact_id |-> None,
      mofo_relevant |-> None ]

VpnWaitlistNames ==
    [ geo |-> "fpn_country",
      platform |-> "fpn_platform" ]

(* primary_email of the fxa group given the basket name of the email
   group's primary_email *)
CTMS_TO_BASKET_NAMES_fxa_email ==
    [ amo |-> AmoNames, email |-> EmailNames,
      fxa |-> [FxaNames EXCEPT !.primary_email = "email"],
      mofo |-> MofoNames, vpn_waitlist |-> VpnWaitlistNames ]

CTMS_TO_BASKET_NAMES ==
    [ amo |-> AmoNames, email |-> EmailNames, fxa |-> FxaNames,
      mofo |-> MofoNames, vpn_waitlist |-> VpnWaitlistNames ]

(* One entry of the newsletters list of a contact. *)
Newsletter(name, subscribed) ==
    [ name |-> name, subscribed |-> subscribed, format |-> "H",
      lang |-> "en", source |-> "https://www.mozilla.org/en-US/",
      unsub_reason |-> "string" ]

(* The contacts CTMS can answer with: every group present or not. *)
VendorContacts ==
    LET
        (* Groups as the CTMS API returns them (test_ctms.py SAMPLE_CTMS_RESPONSE,
           values shortened), and groups with unset, empty and unknown fields. *)
        AmoGroups ==
            { [ add_on_ids |-> S(<<"a", "1", ",", "a", "2">>),
              display_name |-> S(<<"A", "u", "t", "h", "o", "r">>),
              email_opt_in |-> B(FALSE),
              language |-> S(<<"e", "n">>),
              last_login |-> S(<<"2", "0", "2", "1">>),
              location |-> S(<<"C", "A">>),
              profile_url |-> S(<<"u", "/", "9", "8">>),
              user |-> B(TRUE),
              user_id |-> S(<<"9", "8">>),
              username |-> S(<<"A", "o", "A">>),
              create_timestamp |-> S(<<"2", "0", "2", "0">>),
              update_timestamp |-> S(<<"2", "0", "2", "1">>) ],
              [ user_id |-> S(<<"a", "m", "o", "-", "i", "d">>) ] }

        EmailGroups ==
            { [ primary_email |-> S(<<"c", "@", "e", "x", ".", "c", "o", "m">>),
              basket_token |-> S(<<"c", "4", "a", "7">>),
              double_opt_in |-> B(TRUE),
              sfdc_id |-> S(<<"0", "0", "1", "A">>),
              first_name |-> S(<<"J", "a", "n", "e">>),
              last_name |-> S(<<"D", "o", "e">>),
              mailing_country |-> S(<<"u", "s">>),
              email_format |-> S(<<"H">>),
              email_lang |-> S(<<"e", "n">>),
              has_opted_out_of_email |-> B(FALSE),
              unsubscribe_reason |-> S(<<"s", "t", "r", "i", "n", "g">>),
              email_id |-> S(<<"3", "3", "2", "d">>),
              create_timestamp |-> S(<<"2", "0", "2", "0">>),
              update_timestamp |-> S(<<"2", "0", "2", "1">>) ],
              [ primary_email |-> S(<<"t", "@", "e", "x", ".", "c", "o", "m">>),
              basket_token |-> S(<<"t", "o", "k", "e", "n">>) ],
              [ primary_email |-> S(<<"t", "@", "e", "x", ".", "c", "o", "m">>),
              other |-> S(<<"s", "t", "u", "f", "f">>) ],
              [ primary_email |-> S(<<"t", "@", "e", "x", ".", "c", "o", "m">>),
              first_name |-> S(<<>>),
              last_name |-> Nil,
              sfdc_id |-> Nil,
              unsubscribe_reason |-> S(<<" ">>),
              mailing_country |-> S(<<"e", "n">>),
              email_lang |-> S(<<"r", "u">>) ] }

        FxaGroups ==
            { [ fxa_id |-> S(<<"6", "e", "b", "6">>),
              primary_email |-> S(<<"f", "@", "e", "x", ".", "c", "o", "m">>),
              created_date |-> S(<<"2", "0", "2", "1">>),
              lang |-> S(<<"e", "n", ",", "e", "n", "-", "U", "S">>),
              first_service |-> S(<<"s", "y", "n", "c">>),
              account_deleted |-> B(FALSE) ] }

        MofoGroups ==
            { [ mofo_email_id |-> S(<<"s", "t", "r", "i", "n", "g">>),
              mofo_contact_id |-> S(<<"s", "t", "r", "i", "n", "g">>),
              mofo_relevant |-> B(FALSE) ] }

        VpnGroups ==
            { [ geo |-> S(<<"f", "r">>),
              platform |-> S(<<"i", "o", "s", ",", "m", "a", "c">>) ] }

        NewsletterLists ==
            { <<>>,
              << Newsletter("mozilla-welcome", TRUE) >>,
              << Newsletter("mozilla-welcome", FALSE) >>,
              << Newsletter("slug1", TRUE), Newsletter("slug2", FALSE),
                 Newsletter("mozilla-welcome", TRUE) >>,
              << Newsletter("slug2", TRUE), Newsletter("slug1", TRUE) >> }

        (* Groups and top-level keys basket does not know. *)
        UnknownParts ==
            { [ favorites |-> [ color |-> S(<<"b", "l", "u", "e">>) ] ],
              [ status |-> S(<<"o", "k">>) ] }
    IN
        { Merge(Merge(Merge(Merge(Merge(Merge(amo, email), fxa), mofo), vpn),
                newsletters), unknown) :
            amo \in {EmptyDict} \cup { [amo |-> g] : g \in AmoGroups },
            email \in {EmptyDict} \cup { [email |-> g] : g \in EmailGroups },
            fxa \in {EmptyDict} \cup { [fxa |-> g] : g \in FxaGroups },
            mofo \in {EmptyDict} \cup { [mofo |-> g] : g \in MofoGroups },
            vpn \in {EmptyDict} \cup { [vpn_waitlist |-> g] : g \in VpnGroups },
            newsletters \in {EmptyDict} \cup
                            { [newsletters |-> l] : l \in NewsletterLists },
            unknown \in {EmptyDict} \cup UnknownParts }

(* the inner loop of from_vendor over basket_group.items(), ctms.py:88-90;
   todo is the set of table entries not yet visited *)
RECURSIVE from_vendor_group(_, _, _, _)
from_vendor_group(data, basket_group, group, todo) ==
    IF todo = {} THEN data
    ELSE LET ctms_name == CHOOSE n \in todo : TRUE
             basket_name == basket_group[ctms_name]
             written == IF basket_name # None /\ ctms_name \in DOMAIN group
                        THEN Put(data, basket_name, group[ctms_name])
                        ELSE data
         IN  from_vendor_group(written, basket_group, group,
                               todo \ {ctms_name})

(* the names of the subscribed newsletters, in order, ctms.py:94-97 *)
RECURSIVE subscribed_names(_)
subscribed_names(group) ==
    IF group = <<>> THEN <<>>
    ELSE IF Head(group).subscribed
         THEN <<Head(group).name>> \o subscribed_names(Tail(group))
         ELSE subscribed_names(Tail(group))

(* the outer loop of from_vendor over contact.items(), ctms.py:85-100 *)
RECURSIVE from_vendor_groups(_, _, _)
from_vendor_groups(data, contact, todo) ==
    IF todo = {} THEN data
    ELSE LET group_name == CHOOSE n \in todo : TRUE
             group == contact[group_name]
             written ==
                 IF group_name \in DOMAIN CTMS_TO_BASKET_NAMES
                 THEN LET basket_group == CTMS_TO_BASKET_NAMES[group_name]
                      IN  from_vendor_group(data, basket_group, group,
                                            DOMAIN basket_group)
                 ELSE IF group_name = "newsletters"
                 THEN Put(data, "newsletters", L(subscribed_names(group)))
                 ELSE data
         IN  from_vendor_groups(written, contact, todo \ {group_name})

(* every field of a known group copied under the vendor's own name when
   the table has no basket name for it *)
from_vendor_keeps_unmapped(contact) ==
    LET data == from_vendor_groups(EmptyDict, contact, DOMAIN contact)
        extra == { f \in {"language", "username"} :
                      "amo" \in DOMAIN contact /\ f \in DOMAIN contact.amo }
    IN  Merge(data, [f \in extra |-> contact.amo[f]])

(* every newsletter listed, subscribed or not *)
from_vendor_all_newsletters(contact) ==
    LET data == from_vendor_groups(EmptyDict, contact, DOMAIN contact)
    IN  IF "newsletters" \in DOMAIN contact
        THEN Put(data, "newsletters",
                 L([i \in 1..Len(contact.newsletters) |->
                        contact.newsletters[i].name]))
        ELSE data

from_vendor(contact) ==
    from_vendor_groups(EmptyDict, contact, DOMAIN contact)

(* to_vendor and its helpers. *)

Whitespace == {" ", "\t", "\n", "\r"}

(* str.strip(): the characters from the first to the last that is not
   white space *)
strip(chars) ==
    LET solid == { i \in 1..Len(chars) : chars[i] \notin Whitespace }
    IN  IF solid = {} THEN <<>>
        ELSE LET first == CHOOSE i \in solid : \A j \in solid : i <= j
                 last == CHOOSE i \in solid : \A j \in solid : j <= i
             IN  SubSeq(chars, first, last)

UpperToLower ==
    [ A |-> "a", B |-> "b", C |-> "c", D |-> "d", E |-> "e", F |-> "f",
      G |-> "g", H |-> "h", I |-> "i", J |-> "j", K |-> "k", L |-> "l",
      M |-> "m", N |-> "n", O |-> "o", P |-> "p", Q |-> "q", R |-> "r",
      S |-> "s", T |-> "t", U |-> "u", V |-> "v", W |-> "w", X |-> "x",
      Y |-> "y", Z |-> "z" ]

(* str.lower() *)
lower(chars) ==
    [i \in 1..Len(chars) |->
        IF chars[i] \in DOMAIN UpperToLower THEN UpperToLower[chars[i]]
        ELSE chars[i]]

(* s[:n] *)
prefix(chars, n) == SubSeq(chars, 1, IF Len(chars) < n THEN Len(chars) ELSE n)

(* the two-letter codes of the country list, and three-letter codes *)
Countries ==
    { <<"m", "x">>, <<"c", "n">>, <<"u", "s">>, <<"f", "r">>, <<"d", "e">> }

Countries3 ==
    { << <<"u", "s", "a">>, <<"u", "s">> >>,
      << <<"m", "e", "x">>, <<"m", "x">> >>,
      << <<"f", "r", "a">>, <<"f", "r">> >> }

(* the country looked up as it was typed *)
process_country_keeps_case(chars) ==
    LET two == IF \E p \in Countries3 : p[1] = chars
               THEN (CHOOSE p \in Countries3 : p[1] = chars)[2]
               ELSE chars
    IN  IF two \in Countries THEN two ELSE <<>>

(* a country is lower-cased, a three-letter code turned into its
   two-letter code, and kept when the country list has it *)
process_country(chars) ==
    LET code == lower(chars)
        two == IF \E p \in Countries3 : p[1] = code
               THEN (CHOOSE p \in Countries3 : p[1] = code)[2]
               ELSE code
    IN  IF two \in Countries THEN two ELSE <<>>

(* settings.EXTRA_SUPPORTED_LANGS and the first two letters of
   newsletter_languages() *)
EXTRA_SUPPORTED_LANGS ==
    { <<"z", "h", "-", "h", "a", "n", "s">>,
      <<"z", "h", "-", "h", "a", "n", "t">> }

NewsletterLanguages ==
    { <<"d", "e">>, <<"e", "n">>, <<"e", "s">>, <<"f", "r">>, <<"z", "h">> }

(* a language that is not supported left out *)
process_lang_omits_unknown(chars) ==
    IF chars = <<>> THEN <<>>
    ELSE IF lower(chars) \in EXTRA_SUPPORTED_LANGS THEN chars
    ELSE IF lower(prefix(chars, 2)) \in NewsletterLanguages
    THEN lower(prefix(chars, 2))
    ELSE <<>>

(* a language is kept as it is when it is an extra supported language,
   reduced to its lower-cased first two letters when a newsletter language
   starts with them, and replaced by 'en' otherwise *)
process_lang(chars) ==
    IF chars = <<>> THEN <<>>
    ELSE IF lower(chars) \in EXTRA_SUPPORTED_LANGS THEN chars
    ELSE IF lower(prefix(chars, 2)) \in NewsletterLanguages
    THEN lower(prefix(chars, 2))
    ELSE <<"e", "n">>

(* the maximum lengths of the string fields *)
TRUNCATE ==
    [ first_name |-> 255, last_name |-> 255, reason |-> 1000,
      fpn_country |-> 100, fpn_platform |-> 100 ]

(* basket names that are dropped on the way to CTMS *)
DISCARD_BASKET_NAMES ==
    { "_set_subscriber", "record_type", "postal_code", "source_url",
      "fsa_school", "fsa_grad_year", "fsa_major", "fsa_city",
      "fsa_current_status", "fsa_allow_share", "cv_days_interval",
      "cv_created_at", "cv_goal_reached_at", "cv_first_contribution_date",
      "cv_two_day_streak", "cv_last_active_date", "amo_deleted",
      "fxa_last_login" }

(* the (group, field) pairs of the table that have a basket name *)
MappedPairs ==
    { p \in UNION { {g} \X DOMAIN CTMS_TO_BASKET_NAMES[g] :
                       g \in DOMAIN CTMS_TO_BASKET_NAMES } :
        CTMS_TO_BASKET_NAMES[p[1]][p[2]] # None }

(* the table read from the basket name to the CTMS group and field *)
BASKET_TO_CTMS_NAMES ==
    [ b \in { CTMS_TO_BASKET_NAMES[p[1]][p[2]] : p \in MappedPairs } |->
        CHOOSE p \in MappedPairs : CTMS_TO_BASKET_NAMES[p[1]][p[2]] = b ]

(* a string cut before it is stripped *)
to_vendor_value_cut_first(name, raw) ==
    IF raw = Nil THEN Nil
    ELSE IF "s" \notin DOMAIN raw THEN raw
    ELSE LET cut == IF name \in DOMAIN TRUNCATE
                    THEN prefix(raw.s, TRUNCATE[name]) ELSE raw.s
             stripped == strip(cut)
         IN  IF stripped = <<>> THEN Nil ELSE S(stripped)

(* the value sent for a mapped basket name, Nil when the field is left
   out: None and empty strings vanish, a string is stripped, normalized by
   the rule of its field and cut to the maximum length of its field *)
to_vendor_value(name, raw) ==
    IF raw = Nil THEN Nil
    ELSE IF "s" \notin DOMAIN raw THEN raw
    ELSE LET stripped == strip(raw.s)
             processed == IF name = "country" THEN process_country(stripped)
                          ELSE IF name = "lang" THEN process_lang(stripped)
                          ELSE stripped
             cut == IF name \in DOMAIN TRUNCATE
                    THEN prefix(processed, TRUNCATE[name]) ELSE processed
         IN  IF cut = <<>> THEN Nil ELSE S(cut)

(* every requested newsletter sent, known or not *)
to_vendor_newsletters_unchecked(raw, valid_slugs) ==
    IF "list" \in DOMAIN raw
    THEN [i \in 1..Len(raw.list) |->
             [name |-> raw.list[i], subscribed |-> TRUE]]
    ELSE [i \in 1..Len(raw.dict) |->
             [name |-> raw.dict[i][1], subscribed |-> raw.dict[i][2]]]

(* the entries sent for 'newsletters': a list asks to subscribe to each
   slug, a dict gives the flag per slug; slugs that newsletter_slugs() does
   not have are left out *)
RECURSIVE to_vendor_newsletters(_, _)
to_vendor_newsletters(raw, valid_slugs) ==
    LET items == IF "list" \in DOMAIN raw THEN raw.list ELSE raw.dict
    IN  IF items = <<>> THEN <<>>
        ELSE LET item == Head(items)
                 rest == IF "list" \in DOMAIN raw THEN L(Tail(items))
                         ELSE D(Tail(items))
                 entry == IF "list" \in DOMAIN raw
                          THEN [name |-> item, subscribed |-> TRUE]
                          ELSE [name |-> item[1], subscribed |-> item[2]]
                 more == to_vendor_newsletters(rest, valid_slugs)
             IN  IF entry.name \in valid_slugs THEN <<entry>> \o more
                 ELSE more

(* an unknown basket name dropped like a discarded one *)
to_vendor_item_lenient(ctms_data, name, raw, valid_slugs) ==
    IF name \in DOMAIN BASKET_TO_CTMS_NAMES
    THEN LET value == to_vendor_value(name, raw)
             group_name == BASKET_TO_CTMS_NAMES[name][1]
             key == BASKET_TO_CTMS_NAMES[name][2]
             group == IF group_name \in DOMAIN ctms_data
                      THEN ctms_data[group_name] ELSE EmptyDict
         IN  IF value = Nil THEN ctms_data
             ELSE Put(ctms_data, group_name, Put(group, key, value))
    ELSE IF name = "newsletters"
    THEN LET entries == to_vendor_newsletters(raw, valid_slugs)
         IN  IF entries = <<>> THEN ctms_data
             ELSE Put(ctms_data, "newsletters", entries)
    ELSE ctms_data

(* one item of the flat record placed into the CTMS structure; Nil when
   the name is unknown *)
to_vendor_item(ctms_data, name, raw, valid_slugs) ==
    IF name \in DOMAIN BASKET_TO_CTMS_NAMES
    THEN LET value == to_vendor_value(name, raw)
             group_name == BASKET_TO_CTMS_NAMES[name][1]
             key == BASKET_TO_CTMS_NAMES[name][2]
             group == IF group_name \in DOMAIN ctms_data
                      THEN ctms_data[group_name] ELSE EmptyDict
         IN  IF value = Nil THEN ctms_data
             ELSE Put(ctms_data, group_name, Put(group, key, value))
    ELSE IF name \in DISCARD_BASKET_NAMES THEN ctms_data
    ELSE IF name = "newsletters"
    THEN LET entries == to_vendor_newsletters(raw, valid_slugs)
         IN  IF entries = <<>> THEN ctms_data
             ELSE Put(ctms_data, "newsletters", entries)
    ELSE Nil

(* the loop of to_vendor over data.items(); todo is the set of names not
   yet visited; an unknown name ends it with KeyError *)
RECURSIVE to_vendor_items(_, _, _, _)
to_vendor_items(ctms_data, data, valid_slugs, todo) ==
    IF todo = {} THEN [raised |-> FALSE, output |-> ctms_data]
    ELSE LET name == CHOOSE n \in todo : TRUE
             placed == to_vendor_item(ctms_data, name, data[name],
                                      valid_slugs)
         IN  IF placed = Nil
             THEN [raised |-> TRUE, error |-> "KeyError", key |-> name]
             ELSE to_vendor_items(placed, data, valid_slugs, todo \ {name})

to_vendor(data, valid_slugs) ==
    to_vendor_items(EmptyDict, data, valid_slugs, DOMAIN data)

(* Inputs of to_vendor. *)

MaxPad == 2

Repeat(char, n) == [i \in 1..n |-> char]

(* what newsletter_slugs() can return *)
SlugRegistries ==
    { {}, {"mozilla-welcome"}, {"a"}, {"slug1", "slug2", "slug3", "slug4"} }

FlatRecords ==
    LET
        TruncateRecords ==
            LET
                (* Values of a string field of maximum length n: longer, as long and
                   shorter than n, with and without white space around, empty and None. *)
                StringValues(n) ==
                    { S(pad \o body \o tail) :
                        pad \in { Repeat(" ", k) : k \in 0..MaxPad },
                        body \in { Repeat("x", n + 1), Repeat("x", n), Repeat("x", n - 1),
                                   Repeat("x", n - 1) \o <<" ", "y">>, <<"J", "a", "n", "e">>, <<>> },
                        tail \in { <<>>, <<"\n">> } }
                    \cup { S(Repeat(" ", n + 1)), S(<<"\t">>), S(<<"\r", "\n">>), Nil }
            IN
                UNION { { [k \in {name} |-> v] : v \in StringValues(TRUNCATE[name]) } :
                          name \in DOMAIN TRUNCATE }

        IgnoredRecord ==
            [ n \in DISCARD_BASKET_NAMES |->
                IF n \in {"_set_subscriber", "fsa_allow_share", "cv_two_day_streak",
                          "amo_deleted"}
                THEN B(TRUE) ELSE S(<<"2", "0", "2", "0">>) ]

        UnknownRecords ==
            { [ foo |-> S(<<"b", "a", "r">>) ], [ foo |-> S(<<>>) ], [ foo |-> Nil ],
              [ foo |-> S(<<"b", "a", "r">>), fsa_school |-> S(<<"U", " ", "o", "f", " ", "X">>) ],
              [ newsletter |-> S(<<"s", "l", "u", "g", "1">>) ] }

        NameRecords ==
            LET
                (* test_truncate_empty_to_none, test_ignored_fields and
                   test_unknown_field_raises of test_ctms.py *)
                EmptyValuesRecord ==
                    [ email |-> S(<<>>), format |-> S(<<"\n">>),
                      first_name |-> S(<<"\r", "\n">>), last_name |-> S(<<"\t">>),
                      reason |-> S(Repeat(" ", 1200)), fpn_country |-> S(<<" ">>),
                      fpn_platform |-> Nil ]
            IN
                { EmptyDict, EmptyValuesRecord,
                  [ first_name |-> S(<<" ", "J", "a", "n", "e", " ">>), last_name |-> S(<<"D", "o", "e">>), email |-> S(<<"c", "@", "e", "x", ".", "c", "o", "m">>) ],
                  [ country |-> S(<<" ", "U", "S", "A", " ">>), lang |-> S(<<"e", "n", "-", "U", "S">>), optin |-> B(TRUE),
                    optout |-> B(FALSE) ],
                  [ country |-> S(<<"e", "n">>), lang |-> S(<<" ", "r", "u">>), token |-> S(<<"c", "4", "a", "7">>) ] }

        NewsletterRecords ==
            { [ newsletters |-> v ] : v \in
                { L(<<"slug1", "slug2", "slug3", "other">>),
                  L(<<"mozilla-welcome">>), L(<<"other">>), L(<<>>),
                  D(<< <<"slug1", TRUE>>, <<"slug2", FALSE>>, <<"slug3", TRUE>>,
                       <<"other", TRUE>> >>),
                  D(<< <<"a", TRUE>>, <<"z", FALSE>> >>),
                  D(<< <<"other", FALSE>> >>) } }

        CountryLangRecords ==
            LET
                (* test_country and test_lang of test_ctms.py *)
                CountryValues ==
                    { S(<<"m", "x">>), S(<<"C", "N">>),
                      S(<<" ", "U", "S", "A", " ">>), S(<<"e", "n">>),
                      S(<<" ", "A", "B", "C", " ">>), S(<<"F", "r", "a">>),
                      S(<<" ", "d", "e">>), S(<<"x", "x">>) }

                LangValues ==
                    { S(<<"e", "n">>), S(<<"E", "S">>),
                      S(<<" ", " ", "F", "R", " ", " ">>),
                      S(<<"e", "n", "-", "U", "S">>), S(<<"z", "h">>),
                      S(<<"z", "h", "-", "T", "W", " ">>),
                      S(<<" ", "z", "h", "-", "C", "N">>),
                      S(<<"z", "h", "-", "H", "a", "n", "s", " ">>),
                      S(<<"z", "h", "-", "H", "a", "n", "t">>), S(<<" ", "r", "u">>),
                      S(<<"e", "n", "-", "C", "A">>), S(<<"e", "s", "-", "M", "X">>) }
            IN
                { [ country |-> v ] : v \in CountryValues } \cup
                { [ lang |-> v ] : v \in LangValues } \cup
                { [ country |-> c, lang |-> l, foo |-> S(<<"b", "a", "r">>) ] :
                    c \in CountryValues, l \in LangValues }
    IN
        TruncateRecords \cup CountryLangRecords \cup
        { Merge(Merge(names, newsletters), other) :
            names \in NameRecords,
            newsletters \in {EmptyDict} \cup NewsletterRecords,
            other \in {EmptyDict, IgnoredRecord} \cup UnknownRecords }

(* A call about to be made: the function and its argument. *)
Pending(fn, input) == [ op |-> "pending", fn |-> fn, input |-> input ]

(* A caller converts a contact it got from CTMS. *)
FromVendor ==
    /\ mapper.op = "pending" /\ mapper.fn = "from_vendor"
    /\ mapper' = [ op |-> "from_vendor", input |-> mapper.input,
                   raised |-> FALSE, output |-> from_vendor(mapper.input) ]
    /\ UNCHANGED <<envVars, ctms, resolver,
                 vendor, upsert, sfmc, sqs>>

(* A caller converts a basket record for CTMS. *)
ToVendor ==
    /\ mapper.op = "pending" /\ mapper.fn = "to_vendor"
    /\ mapper' = [ op |-> "to_vendor", roundtrip |-> FALSE,
                   input |-> mapper.input.data,
                   valid_slugs |-> mapper.input.valid_slugs,
                   result |-> to_vendor(mapper.input.data,
                                        mapper.input.valid_slugs) ]
    /\ UNCHANGED <<envVars, ctms, resolver,
                 vendor, upsert, sfmc, sqs>>

(* The output of from_vendor is handed to to_vendor. *)
RoundTrip ==
    /\ mapper.op = "from_vendor"
    /\ \E valid_slugs \in SlugRegistries :
          mapper' = [ op |-> "to_vendor", roundtrip |-> TRUE,
                      source |-> mapper.input,
                      input |-> mapper.output,
                      valid_slugs |-> valid_slugs,
                      result |-> to_vendor(mapper.output, valid_slugs) ]
    /\ UNCHANGED <<envVars, ctms, resolver,
                 vendor, upsert, sfmc, sqs>>

InitMapper ==
    /\ settings = [ MAINTENANCE_MODE |-> FALSE, READ_ONLY_MODE |-> FALSE,
                    TASK_LOCKING_ENABLE |-> TRUE,
                    STORE_TASK_FAILURES |-> TRUE ]
    /\ task = [t \in Tasks |-> AbsentTask]
    /\ cache = EmptyCache
    /\ now = 0
    /\ sfmc = NoCall
    /\ sqs = NoCall
    /\ QueuedTask = <<>>
    /\ FailedTask = <<>>
    /\ ctms = CtmsNew(Nil)
    /\ mapper \in
         { Pending("from_vendor", x) : x \in VendorContacts } \cup
         { Pending("to_vendor", [data |-> x, valid_slugs |-> r]) :
               x \in FlatRecords, r \in SlugRegistries }
    /\ resolver = NoCall
    /\ vendor = NoVendor
    /\ upsert = NoCall

NextMapper ==
    \/ FromVendor
    \/ ToVendor
    \/ RoundTrip

SpecMapper == InitMapper /\ [][NextMapper]_vars

(* C15: the output of from_vendor has key b (other than 'newsletters') with
   value v exactly when a recognized group g of the contact has a field f
   that CTMS_TO_BASKET_NAMES maps to the non-null name b, with value v;
   fields mapped to None, unmapped fields and unrecognized groups add
   nothing, and the conversion does not raise. *)
C15_FromVendorMapped ==
    mapper.op = "from_vendor" =>
        LET x == mapper.input
            out == mapper.output
            known == DOMAIN x \cap DOMAIN CTMS_TO_BASKET_NAMES
            Maps(g, f, b) == /\ f \in DOMAIN CTMS_TO_BASKET_NAMES[g]
                             /\ CTMS_TO_BASKET_NAMES[g][f] = b
                             /\ b # None
        IN  /\ ~mapper.raised
            /\ \A b \in DOMAIN out \ {"newsletters"} :
                  \E g \in known : \E f \in DOMAIN x[g] :
                      Maps(g, f, b) /\ out[b] = x[g][f]
            /\ \A g \in known : \A f \in DOMAIN x[g] :
                  \A b \in { CTMS_TO_BASKET_NAMES[g][n] :
                                 n \in DOMAIN CTMS_TO_BASKET_NAMES[g] } :
                      Maps(g, f, b) => b \in DOMAIN out /\ out[b] = x[g][f]

C15_Witness ==
    /\ mapper.op = "from_vendor"
    /\ DOMAIN mapper.input =
           {"amo", "email", "fxa", "mofo", "vpn_waitlist", "favorites"}
    /\ "other" \in DOMAIN mapper.input.email
    /\ "username" \in DOMAIN mapper.input.amo
    /\ DOMAIN mapper.output =
           { "amo_display_name", "amo_last_login", "amo_location",
             "amo_homepage", "amo_user", "amo_id", "email", "fxa_id",
             "fxa_primary_email", "fxa_create_date", "fxa_lang",
             "fxa_service", "fxa_deleted", "fpn_country", "fpn_platform" }

(* C16: with a newsletters group the output has 'newsletters', the names of
   the entries whose subscribed flag is true in their original order (empty
   when none is); without that group the output has no 'newsletters' key. *)
C16_FromVendorNewsletters ==
    mapper.op = "from_vendor" =>
        LET x == mapper.input
            out == mapper.output
        IN  IF "newsletters" \in DOMAIN x
            THEN /\ "newsletters" \in DOMAIN out
                 /\ LET l == x.newsletters
                        names == out.newsletters.list
                        kept == { i \in 1..Len(l) : l[i].subscribed }
                    IN  /\ Len(names) = Cardinality(kept)
                        /\ \A k \in 1..Len(names) :
                              \E i \in kept :
                                  /\ names[k] = l[i].name
                                  /\ Cardinality({ j \in kept : j < i })
                                         = k - 1
            ELSE "newsletters" \notin DOMAIN out

C16_Witness ==
    /\ mapper.op = "from_vendor"
    /\ "newsletters" \in DOMAIN mapper.input
    /\ Len(mapper.input.newsletters) = 3
    /\ mapper.output.newsletters = L(<<"slug1", "mozilla-welcome">>)

-----------------------------------------------------------------------------
(* CTMS.get and CTMSInterface.get_by_alternate_id.  An identifier argument *)
(* is None, the empty string or a value.                                   *)

MaxContacts == 2

(* CTMSInterface.all_ids *)
all_ids ==
    { "email_id", "basket_token", "primary_email", "sfdc_id", "fxa_id",
      "mofo_email_id", "mofo_contact_id", "amo_user_id",
      "fxa_primary_email" }

(* Python truth of an identifier *)
Truthy(v) == v # None /\ v # ""

(* the search for the token even when email_id is given *)
by_email_id_after_token(args) == Truthy(args.email_id) /\ ~Truthy(args.token)

(* if email_id:, ctms.py:361 *)
by_email_id(args) == Truthy(args.email_id)

(* the search looking at the email before the token *)
get_params_email_first(args) ==
    IF Truthy(args.email) THEN [primary_email |-> args.email]
    ELSE IF Truthy(args.token) THEN [basket_token |-> args.token]
    ELSE IF Truthy(args.sfdc_id) THEN [sfdc_id |-> args.sfdc_id]
    ELSE IF Truthy(args.fxa_id) THEN [fxa_id |-> args.fxa_id]
    ELSE IF Truthy(args.mofo_email_id)
    THEN [mofo_email_id |-> args.mofo_email_id]
    ELSE IF Truthy(args.amo_id) THEN [amo_user_id |-> args.amo_id]
    ELSE Nil

(* the params CTMS.get searches with, Nil where it raises, ctms.py:364-377 *)
get_params(args) ==
    IF Truthy(args.token) THEN [basket_token |-> args.token]
    ELSE IF Truthy(args.email) THEN [primary_email |-> args.email]
    ELSE IF Truthy(args.sfdc_id) THEN [sfdc_id |-> args.sfdc_id]
    ELSE IF Truthy(args.fxa_id) THEN [fxa_id |-> args.fxa_id]
    ELSE IF Truthy(args.mofo_email_id)
    THEN [mofo_email_id |-> args.mofo_email_id]
    ELSE IF Truthy(args.amo_id) THEN [amo_user_id |-> args.amo_id]
    ELSE Nil

(* every parameter sent, None or not *)
alternate_ids_with_none(kwargs) ==
    [n \in DOMAIN kwargs \cap all_ids |-> kwargs[n]]

(* the ids get_by_alternate_id searches with, ctms.py:266-269 *)
alternate_ids(kwargs) ==
    [n \in { m \in DOMAIN kwargs \cap all_ids : kwargs[m] # None }
        |-> kwargs[n]]

(* the first of several contacts taken *)
resolve_first(contacts) ==
    IF contacts = <<>>
    THEN [kind |-> "return", value |-> Nil]
    ELSE [kind |-> "return", value |-> from_vendor(contacts[1])]

(* what CTMS.get makes of the list of contacts, ctms.py:380-390 *)
resolve(contacts) ==
    IF contacts = <<>>
    THEN [kind |-> "return", value |-> Nil]
    ELSE IF Len(contacts) = 1
    THEN [kind |-> "return", value |-> from_vendor(contacts[1])]
    ELSE [kind |-> "raise", error |-> "RuntimeError",
          msg |-> "Multiple contacts returned"]

(* Contacts the vendor answers a lookup with. *)
FoundContacts ==
    { [ amo |-> [ user_id |-> S(<<"i", "d">>) ],
        email |-> [ primary_email |-> S(<<"b", "@", "e">>),
                    basket_token |-> S(<<"t", "k">>) ] ],
      [ amo |-> [ user_id |-> S(<<"i", "d">>) ],
        email |-> [ primary_email |-> S(<<"c", "@", "e">>),
                    basket_token |-> S(<<"t", "2">>) ],
        newsletters |-> << Newsletter("slug1", TRUE) >> ] }

(* an error raised for the 4xx statuses only *)
raise_for_status_client_only(status) == status >= 400 /\ status < 500

(* resp.raise_for_status() raises, ctms.py:273, 289, 304, 317 *)
raise_for_status(status) == status >= 400 /\ status < 600

(* What an interface operation makes of the response, ctms.py:273-274,
   289-290, 304-305 and 317-318. *)
interface_result(status, body) ==
    IF raise_for_status(status)
    THEN [kind |-> "raise", error |-> "HTTPError",
          response |-> [status_code |-> status, json |-> body]]
    ELSE [kind |-> "return", value |-> body]

(* a session built whatever the setting *)
ctms_session_always(CTMS_ENABLED) == "CTMSSession"

(* ctms_session(), ctms.py:393-402 *)
ctms_session(CTMS_ENABLED) ==
    IF CTMS_ENABLED THEN "CTMSSession" ELSE None

(* ctms_interface(), ctms.py:405-411 *)
ctms_interface(CTMS_ENABLED) ==
    LET session == ctms_session(CTMS_ENABLED)
    IN  IF session # None THEN "CTMSInterface" ELSE None

(* A call that ended without a request. *)
Ended(r, result) ==
    [ op |-> "done", fn |-> r.fn, CTMS_ENABLED |-> r.CTMS_ENABLED,
      interface |-> r.interface,
      args |-> r.args, requests |-> <<>>, result |-> result ]

(* A call waiting for the response of its request. *)
Awaiting(r, via, request) ==
    [ op |-> "awaiting", fn |-> r.fn, CTMS_ENABLED |-> r.CTMS_ENABLED,
      interface |-> r.interface,
      args |-> r.args, via |-> via, requests |-> <<request>> ]

(* get_by_alternate_id up to session.get, ctms.py:266-272 *)
SearchBy(r, kwargs) ==
    LET ids == alternate_ids(kwargs)
    IN  IF DOMAIN ids = {}
        THEN Ended(r, [kind |-> "raise", error |-> "ValueError",
                       msg |-> "At least one ID must be non-null"])
        ELSE Awaiting(r, "get_by_alternate_id",
                      [method |-> "GET", path |-> <<"/ctms">>,
                       params |-> ids])

(* CTMS.get up to the request it sends, ctms.py:358-379 *)
CtmsGet ==
    /\ resolver.op = "pending" /\ resolver.fn = "CTMS.get"
    /\ resolver' =
         IF ~resolver.interface
         THEN Ended(resolver, [kind |-> "return", value |-> Nil])
         ELSE IF by_email_id(resolver.args)
         THEN Awaiting(resolver, "get_by_email_id",
                       [method |-> "GET",
                        path |-> <<"/ctms", resolver.args.email_id>>])
         ELSE IF get_params(resolver.args) = Nil
         THEN Ended(resolver, [kind |-> "raise", error |-> "RuntimeError",
                               msg |-> "One of the arguments must be set"])
         ELSE SearchBy(resolver, get_params(resolver.args))
    /\ UNCHANGED <<envVars, ctms, mapper,
                 vendor, upsert, sfmc, sqs>>

(* a direct call of CTMSInterface.get_by_alternate_id *)
GetByAlternateId ==
    /\ resolver.op = "pending" /\ resolver.fn = "get_by_alternate_id"
    /\ resolver' = SearchBy(resolver, resolver.args)
    /\ UNCHANGED <<envVars, ctms, mapper,
                 vendor, upsert, sfmc, sqs>>

(* a direct call of CTMSInterface.get_by_email_id, ctms.py:303 *)
GetByEmailId ==
    /\ resolver.op = "pending" /\ resolver.fn = "get_by_email_id"
    /\ resolver' =
         Awaiting(resolver, "get_by_email_id",
                  [method |-> "GET",
                   path |-> <<"/ctms", resolver.args.email_id>>])
    /\ UNCHANGED <<envVars, ctms, mapper,
                 vendor, upsert, sfmc, sqs>>

(* a direct call of CTMSInterface.post_to_create, ctms.py:288 *)
PostToCreate ==
    /\ resolver.op = "pending" /\ resolver.fn = "post_to_create"
    /\ resolver' =
         Awaiting(resolver, "post_to_create",
                  [method |-> "POST", path |-> <<"/ctms">>,
                   json |-> resolver.args.data])
    /\ UNCHANGED <<envVars, ctms, mapper,
                 vendor, upsert, sfmc, sqs>>

(* a direct call of CTMSInterface.put_by_email_id, ctms.py:316 *)
PutByEmailId ==
    /\ resolver.op = "pending" /\ resolver.fn = "put_by_email_id"
    /\ resolver' =
         Awaiting(resolver, "put_by_email_id",
                  [method |-> "PUT",
                   path |-> <<"/ctms", resolver.args.email_id>>,
                   json |-> resolver.args.data])
    /\ UNCHANGED <<envVars, ctms, mapper,
                 vendor, upsert, sfmc, sqs>>

(* The response arrives: raise_for_status, resp.json() and, in CTMS.get,
   the rest of the method, ctms.py:273-274, 289-290, 304-305, 317-318 and
   362, 380-390.  A successful search answers with a list of contacts, the
   other successful requests with one contact. *)
GetResponse ==
    LET
        ContactLists ==
            UNION { [1..n -> FoundContacts] : n \in 0..MaxContacts }

        (* Statuses of the final response of a session request. *)
        GetStatuses == {200, 201, 400, 401, 404, 422, 500}

        (* Bodies the vendor sends with an error status. *)
        ErrorBodies ==
            { [detail |-> "Incorrect username or password"],
              [detail |-> "Unknown contact_id"] }
    IN
        /\ resolver.op = "awaiting"
        /\ \E status \in GetStatuses :
              \E body \in IF raise_for_status(status) THEN ErrorBodies
                          ELSE IF resolver.via = "get_by_alternate_id"
                          THEN ContactLists ELSE FoundContacts :
                 LET answer == interface_result(status, body)
                 IN  resolver' =
                       [ op |-> "done", fn |-> resolver.fn,
                         CTMS_ENABLED |-> resolver.CTMS_ENABLED,
                         interface |-> resolver.interface,
                         args |-> resolver.args,
                         via |-> resolver.via, requests |-> resolver.requests,
                         status |-> status,
                         body |-> body,
                         answer |-> answer,
                         result |->
                            IF resolver.fn # "CTMS.get" \/ answer.kind = "raise"
                            THEN answer
                            ELSE IF resolver.via = "get_by_email_id"
                            THEN [kind |-> "return",
                                  value |-> from_vendor(answer.value)]
                            ELSE resolve(answer.value) ]
        /\ UNCHANGED <<envVars, ctms, mapper,
                     vendor, upsert, sfmc, sqs>>

InitGet ==
    LET
        GetArgs ==
            [ email_id : {None, "", "a-ctms-uuid"},
              token : {None, "", "token"},
              email : {None, "", "basket@example.com"},
              sfdc_id : {None, "", "sfdc-id"},
              fxa_id : {None, "", "fxa-id"},
              mofo_email_id : {None, "", "mofo-email-id"},
              amo_id : {None, "", "amo-id"} ]

        (* Keyword arguments of a direct call of get_by_alternate_id: every
           parameter defaults to None, at most two are given another value. *)
        AlternateIdArgs ==
            { [n \in all_ids |-> None] } \cup
            { [n \in all_ids |-> IF n = a THEN v ELSE None] :
                  a \in all_ids, v \in {"", "an-id"} } \cup
            { [n \in all_ids |-> IF n = a THEN "an-id"
                                 ELSE IF n = b THEN v ELSE None] :
                  a \in {"email_id", "amo_user_id"},
                  b \in all_ids \ {"email_id", "amo_user_id"},
                  v \in {"", "other-id"} }

        (* Contact data given to post_to_create and put_by_email_id. *)
        WriteData ==
            { [ email |-> [ primary_email |-> S(<<"b", "@", "e">>) ] ],
              [ email |-> EmptyDict ] }
    IN
        /\ settings = [ MAINTENANCE_MODE |-> FALSE, READ_ONLY_MODE |-> FALSE,
                        TASK_LOCKING_ENABLE |-> TRUE,
                        STORE_TASK_FAILURES |-> TRUE ]
        /\ task = [t \in Tasks |-> AbsentTask]
        /\ cache = EmptyCache
        /\ now = 0
        /\ sfmc = NoCall
        /\ sqs = NoCall
        /\ QueuedTask = <<>>
        /\ FailedTask = <<>>
        /\ ctms = CtmsNew(Nil)
        /\ mapper = NoCall
        /\ vendor = NoVendor
        /\ upsert = NoCall
        /\ resolver \in
             { [ op |-> "pending", fn |-> "CTMS.get", CTMS_ENABLED |-> e,
                 interface |-> ctms_interface(e) # None,
                 args |-> a ] : e \in BOOLEAN, a \in GetArgs }
             \cup
             { [ op |-> "pending", fn |-> "get_by_alternate_id",
                 CTMS_ENABLED |-> TRUE, interface |-> TRUE, args |-> a ] :
                   a \in AlternateIdArgs }
             \cup
             { [ op |-> "pending", fn |-> "get_by_email_id",
                 CTMS_ENABLED |-> TRUE, interface |-> TRUE,
                 args |-> [email_id |-> i] ] :
                   i \in {"a-ctms-uuid", "unknown-id"} }
             \cup
             { [ op |-> "pending", fn |-> "post_to_create",
                 CTMS_ENABLED |-> TRUE, interface |-> TRUE,
                 args |-> [data |-> d] ] : d \in WriteData }
             \cup
             { [ op |-> "pending", fn |-> "put_by_email_id",
                 CTMS_ENABLED |-> TRUE, interface |-> TRUE,
                 args |-> [email_id |-> "a-ctms-uuid", data |-> d] ] :
                   d \in WriteData }

NextGet ==
    \/ CtmsGet
    \/ GetByAlternateId
    \/ GetByEmailId
    \/ PostToCreate
    \/ PutByEmailId
    \/ GetResponse

SpecGet == InitGet /\ [][NextGet]_vars

-----------------------------------------------------------------------------
(* Properties of CTMS.get and CTMSInterface.get_by_alternate_id *)

(* the call ran up to its request or its end *)
Called == resolver.op \in {"awaiting", "done"}

(* the call is a lookup by identifiers *)
Lookup == resolver.fn \in {"CTMS.get", "get_by_alternate_id"}

AllNone(args) == \A n \in DOMAIN args : args[n] = None

NoRequestRaised ==
    /\ resolver.op = "done"
    /\ resolver.requests = <<>>
    /\ resolver.result.kind = "raise"
    /\ resolver.result.error \in {"RuntimeError", "ValueError"}

(* C12: when the search of CTMS.get answers with a list of contacts, an
   empty list gives None without an error, a list of one gives that contact
   converted by from_vendor, a list of two or more gives an error and no
   contact. *)
C12_Cardinality ==
    ( /\ resolver.op = "done" /\ resolver.fn = "CTMS.get"
      /\ resolver.requests # <<>>
      /\ resolver.via = "get_by_alternate_id"
      /\ resolver.status = 200 ) =>
        LET contacts == resolver.body
            result == resolver.result
        IN  /\ Len(contacts) = 0 =>
                  result.kind = "return" /\ result.value = Nil
            /\ Len(contacts) = 1 =>
                  /\ result.kind = "return"
                  /\ result.value = from_vendor(contacts[1])
            /\ Len(contacts) >= 2 =>
                  /\ result.kind = "raise"
                  /\ result.error = "RuntimeError"
                  /\ "value" \notin DOMAIN result

C12_Witness ==
    /\ resolver.op = "done" /\ resolver.fn = "CTMS.get"
    /\ resolver.requests # <<>>
    /\ resolver.via = "get_by_alternate_id"
    /\ resolver.status = 200
    /\ Len(resolver.body) = 2
    /\ resolver.body[1] # resolver.body[2]
    /\ resolver.result.kind = "raise"

(* C13 as stated: a call of CTMS.get or get_by_alternate_id in which every
   identifier is None raises an invalid-argument error and sends no
   request. *)
C13_NoIdentifiers ==
    (Called /\ Lookup /\ AllNone(resolver.args)) => NoRequestRaised

(* C13 amended: a call of get_by_alternate_id, or of CTMS.get on a
   configured interface, in which every identifier is None raises an
   invalid-argument error and sends no request; CTMS.get without an
   interface returns None and sends no request. *)
C13_NoIdentifiersConfigured ==
    (Called /\ Lookup /\ AllNone(resolver.args)) =>
        IF resolver.fn = "CTMS.get" /\ ~resolver.interface
        THEN /\ resolver.op = "done"
             /\ resolver.requests = <<>>
             /\ resolver.result = [kind |-> "return", value |-> Nil]
        ELSE NoRequestRaised

C13_Witness ==
    /\ resolver.op = "done"
    /\ resolver.fn = "get_by_alternate_id"
    /\ AllNone(resolver.args)
    /\ resolver.result.kind = "raise"

(* C14 as stated: when email_id is given to CTMS.get, exactly one request is
   sent, GET /ctms/{email_id}, and no search, whatever the other
   identifiers. *)
C14_ByEmailId ==
    (Called /\ resolver.fn = "CTMS.get" /\ Truthy(resolver.args.email_id)) =>
        resolver.requests =
            << [method |-> "GET",
                path |-> <<"/ctms", resolver.args.email_id>>] >>

(* C14 amended: the same on a configured interface; without an interface no
   request is sent at all. *)
C14_ByEmailIdConfigured ==
    (Called /\ resolver.fn = "CTMS.get" /\ Truthy(resolver.args.email_id)) =>
        IF resolver.interface
        THEN resolver.requests =
                << [method |-> "GET",
                    path |-> <<"/ctms", resolver.args.email_id>>] >>
        ELSE resolver.requests = <<>>

C14_Witness ==
    /\ resolver.op = "done" /\ resolver.fn = "CTMS.get"
    /\ resolver.interface
    /\ resolver.args.email_id = "a-ctms-uuid"
    /\ resolver.args.token = "token"
    /\ resolver.args.email = "basket@example.com"
    /\ resolver.requests # <<>>
    /\ resolver.via = "get_by_email_id"
    /\ resolver.status = 200

(* the identifiers of CTMS.get in the order it looks at them, each with the
   name it is sent under *)
SearchOrder ==
    << <<"token", "basket_token">>, <<"email", "primary_email">>,
       <<"sfdc_id", "sfdc_id">>, <<"fxa_id", "fxa_id">>,
       <<"mofo_email_id", "mofo_email_id">>, <<"amo_id", "amo_user_id">> >>

Supplied(args) ==
    { i \in 1..Len(SearchOrder) : Truthy(args[SearchOrder[i][1]]) }

(* the one search filtered by the first supplied identifier *)
OneSearch(args) ==
    LET i == CHOOSE j \in Supplied(args) :
                 \A k \in Supplied(args) : j <= k
    IN  << [ method |-> "GET", path |-> <<"/ctms">>,
             params |-> (SearchOrder[i][2] :> args[SearchOrder[i][1]]) ] >>

SearchCall ==
    /\ Called /\ resolver.fn = "CTMS.get"
    /\ ~Truthy(resolver.args.email_id)

(* C38 as stated: a call of CTMS.get without an email_id and with some
   identifier that is neither None nor empty sends exactly one request, the
   search GET /ctms filtered by the first such identifier in the order
   token, email, sfdc_id, fxa_id, mofo_email_id, amo_id under its CTMS
   name, and by nothing else. *)
C38_FirstIdentifier ==
    (SearchCall /\ Supplied(resolver.args) # {}) =>
        resolver.requests = OneSearch(resolver.args)

(* C38 amended: the same on a configured interface; without an interface no
   request is sent and None is returned, and with no identifier supplied no
   request is sent either. *)
C38_FirstIdentifierConfigured ==
    SearchCall =>
        IF resolver.interface /\ Supplied(resolver.args) # {}
        THEN resolver.requests = OneSearch(resolver.args)
        ELSE /\ resolver.op = "done"
             /\ resolver.requests = <<>>
             /\ ~resolver.interface =>
                   resolver.result = [kind |-> "return", value |-> Nil]

C38_Witness ==
    /\ resolver.op = "done" /\ resolver.fn = "CTMS.get"
    /\ resolver.interface
    /\ resolver.args.email_id = ""
    /\ resolver.args.token = None
    /\ resolver.args.email = ""
    /\ resolver.args.sfdc_id = "sfdc-id"
    /\ resolver.args.fxa_id = "fxa-id"
    /\ resolver.args.amo_id = "amo-id"
    /\ resolver.requests # <<>>
    /\ resolver.requests[1].params = [sfdc_id |-> "sfdc-id"]
    /\ resolver.status = 200

-----------------------------------------------------------------------------
(* Properties of to_vendor *)

ToVendorDone == mapper.op = "to_vendor"

(* the basket names the table maps to a CTMS field *)
MappedNames ==
    UNION { { CTMS_TO_BASKET_NAMES[g][f] :
                f \in DOMAIN CTMS_TO_BASKET_NAMES[g] } :
            g \in DOMAIN CTMS_TO_BASKET_NAMES } \ {None}

MappedField(g, f) ==
    /\ g \in DOMAIN CTMS_TO_BASKET_NAMES
    /\ f \in DOMAIN CTMS_TO_BASKET_NAMES[g]
    /\ CTMS_TO_BASKET_NAMES[g][f] # None

(* group g of the output has field f *)
Emitted(out, g, f) == g \in DOMAIN out /\ f \in DOMAIN out[g]

(* a value to_vendor leaves out: None, or a string without a character
   that is not white space *)
Blank(raw) ==
    \/ raw = Nil
    \/ /\ "s" \in DOMAIN raw
       /\ \A i \in 1..Len(raw.s) : raw.s[i] \in Whitespace

(* only what the contact has with a basket name comes back *)
OnlyMappedFields(x, out) ==
    \A g \in DOMAIN out \ {"newsletters"} :
        /\ g \in DOMAIN x
        /\ \A f \in DOMAIN out[g] : f \in DOMAIN x[g] /\ MappedField(g, f)

(* C17 as stated: to_vendor(from_vendor(x)) raises no unknown-field error,
   every field of x with a basket name is again in its group under its
   CTMS name with its normalized value, and fields without a basket name
   and unknown groups of x are not in the result. *)
C17_RoundTrip ==
    (ToVendorDone /\ mapper.roundtrip) =>
        LET x == mapper.source
            result == mapper.result
        IN  /\ ~result.raised
            /\ \A g \in DOMAIN x \cap DOMAIN CTMS_TO_BASKET_NAMES :
                  \A f \in DOMAIN x[g] :
                      MappedField(g, f) =>
                          /\ Emitted(result.output, g, f)
                          /\ result.output[g][f] =
                                 to_vendor_value(CTMS_TO_BASKET_NAMES[g][f],
                                                 x[g][f])
            /\ OnlyMappedFields(x, result.output)

(* C17 amended: the same for the fields whose normalized value is not
   empty; a field whose value is None, or empty once stripped and
   normalized, is not in the result. *)
C17_RoundTripNonEmpty ==
    (ToVendorDone /\ mapper.roundtrip) =>
        LET x == mapper.source
            result == mapper.result
        IN  /\ ~result.raised
            /\ \A g \in DOMAIN x \cap DOMAIN CTMS_TO_BASKET_NAMES :
                  \A f \in DOMAIN x[g] :
                      MappedField(g, f) =>
                          LET b == CTMS_TO_BASKET_NAMES[g][f]
                              invalid == b = "country" /\ ~Blank(x[g][f])
                                  /\ process_country(strip(x[g][f].s)) = <<>>
                          IN  IF Blank(x[g][f]) \/ invalid
                              THEN ~Emitted(result.output, g, f)
                              ELSE /\ Emitted(result.output, g, f)
                                   /\ result.output[g][f] =
                                          to_vendor_value(b, x[g][f])
            /\ OnlyMappedFields(x, result.output)

C17_Witness ==
    /\ ToVendorDone /\ mapper.roundtrip
    /\ DOMAIN mapper.source =
           {"amo", "email", "fxa", "mofo", "vpn_waitlist", "newsletters",
            "favorites"}
    /\ "other" \in DOMAIN mapper.source.email
    /\ "username" \in DOMAIN mapper.source.amo
    /\ ~mapper.result.raised
    /\ DOMAIN mapper.result.output = {"amo", "email", "fxa", "vpn_waitlist"}

(* C18: a flat record with a name that is neither mapped to a CTMS field,
   nor discarded on the way out, nor 'newsletters' makes to_vendor raise,
   and no result comes back. *)
C18_UnknownFieldRaises ==
    ToVendorDone =>
        ( (\E name \in DOMAIN mapper.input :
               /\ name \notin MappedNames
               /\ name \notin DISCARD_BASKET_NAMES
               /\ name # "newsletters")
          => /\ mapper.result.raised
             /\ mapper.result.error = "KeyError"
             /\ "output" \notin DOMAIN mapper.result )

C18_Witness ==
    /\ ToVendorDone
    /\ DOMAIN mapper.input = {"first_name", "last_name", "email", "foo"}
    /\ mapper.input.foo = S(<<>>)
    /\ mapper.result.raised

(* C19: a string field with maximum length n is sent stripped of the white
   space around it and cut to n characters (exactly n when the stripped
   value is longer); a value that is None, empty or only white space is
   left out, and a group with no field left is not in the result. *)
C19_Truncate ==
    (ToVendorDone /\ ~mapper.result.raised) =>
        LET out == mapper.result.output
        IN  /\ \A name \in DOMAIN mapper.input \cap DOMAIN TRUNCATE :
                  LET raw == mapper.input[name]
                      n == TRUNCATE[name]
                      p == CHOOSE q \in (DOMAIN CTMS_TO_BASKET_NAMES) \X
                                        {"first_name", "last_name",
                                         "unsubscribe_reason", "geo",
                                         "platform"} :
                               /\ MappedField(q[1], q[2])
                               /\ CTMS_TO_BASKET_NAMES[q[1]][q[2]] = name
                  IN  IF Blank(raw) THEN ~Emitted(out, p[1], p[2])
                      ELSE /\ Emitted(out, p[1], p[2])
                           /\ LET sent == out[p[1]][p[2]].s
                                  solid == { i \in 1..Len(raw.s) :
                                               raw.s[i] \notin Whitespace }
                                  a == CHOOSE i \in solid :
                                          \A j \in solid : i <= j
                                  b == CHOOSE i \in solid :
                                          \A j \in solid : j <= i
                              IN  /\ Len(sent) <= n
                                  /\ b - a + 1 > n => Len(sent) = n
                                  /\ b - a + 1 <= n => Len(sent) = b - a + 1
                                  /\ \A k \in 1..Len(sent) :
                                         sent[k] = raw.s[a + k - 1]
            /\ \A g \in DOMAIN out \ {"newsletters"} : DOMAIN out[g] # {}

C19_Witness ==
    /\ ToVendorDone /\ ~mapper.roundtrip
    /\ DOMAIN mapper.input = {"reason"}
    /\ mapper.input.reason # Nil
    /\ Len(mapper.input.reason.s) = 1003
    /\ ~mapper.result.raised
    /\ Len(mapper.result.output.email.unsubscribe_reason.s) = 1000
    /\ mapper.result.output.email.unsubscribe_reason.s[1000] = " "

(* C20: for 'newsletters' to_vendor sends one entry per requested slug that
   is in the registry, in the order asked: with a list every entry is
   subscribed, with a dict every entry has the flag given for its slug,
   false included; slugs not in the registry are left out without an
   error. *)
C20_Newsletters ==
    (ToVendorDone /\ "newsletters" \in DOMAIN mapper.input) =>
        LET raw == mapper.input.newsletters
            islist == "list" \in DOMAIN raw
            items == IF islist THEN raw.list ELSE raw.dict
            slug(i) == IF islist THEN items[i] ELSE items[i][1]
            flag(i) == IF islist THEN TRUE ELSE items[i][2]
            kept == { i \in 1..Len(items) : slug(i) \in mapper.valid_slugs }
        IN  IF mapper.result.raised
            THEN mapper.result.key # "newsletters"
            ELSE LET out == mapper.result.output
                     entries == IF "newsletters" \in DOMAIN out
                                THEN out.newsletters ELSE <<>>
                 IN  /\ Len(entries) = Cardinality(kept)
                     /\ \A k \in 1..Len(entries) :
                           \E i \in kept :
                               /\ Cardinality({ j \in kept : j < i }) = k - 1
                               /\ entries[k] = [name |-> slug(i),
                                                subscribed |-> flag(i)]

C20_Witness ==
    /\ ToVendorDone /\ ~mapper.roundtrip
    /\ "newsletters" \in DOMAIN mapper.input
    /\ "dict" \in DOMAIN mapper.input.newsletters
    /\ Len(mapper.input.newsletters.dict) = 4
    /\ mapper.valid_slugs = {"slug1", "slug2", "slug3", "slug4"}
    /\ ~mapper.result.raised
    /\ mapper.result.output.newsletters =
           << [name |-> "slug1", subscribed |-> TRUE],
              [name |-> "slug2", subscribed |-> FALSE],
              [name |-> "slug3", subscribed |-> TRUE] >>

(* C21: 'country' is sent as email.mailing_country, stripped, lower-cased
   and as the two-letter code of the country list ("mx" -> "mx", "CN" ->
   "cn", " USA " -> "us"); a value that is no known country ("en",
   " ABC ") is left out, and it is never an error. *)
C21_Country ==
    (ToVendorDone /\ "country" \in DOMAIN mapper.input
                  /\ ~Blank(mapper.input.country)) =>
        IF mapper.result.raised THEN mapper.result.key # "country"
        ELSE LET raw == mapper.input.country.s
                 out == mapper.result.output
                 typed == lower(strip(raw))
                 known == { c \in Countries :
                              \/ c = typed
                              \/ <<typed, c>> \in Countries3 }
                 sent == out.email.mailing_country.s
             IN  /\ Emitted(out, "email", "mailing_country") <=> known # {}
                 /\ Emitted(out, "email", "mailing_country") =>
                       /\ sent \in known
                       /\ Len(sent) = 2 /\ lower(sent) = sent
                 /\ raw = <<"m", "x">> =>
                       Emitted(out, "email", "mailing_country")
                       /\ sent = <<"m", "x">>
                 /\ raw = <<"C", "N">> =>
                       Emitted(out, "email", "mailing_country")
                       /\ sent = <<"c", "n">>
                 /\ raw = <<" ", "U", "S", "A", " ">> =>
                       Emitted(out, "email", "mailing_country")
                       /\ sent = <<"u", "s">>
                 /\ raw \in { <<"e", "n">>, <<" ", "A", "B", "C", " ">> } =>
                       ~Emitted(out, "email", "mailing_country")

C21_Witness ==
    /\ ToVendorDone /\ ~mapper.roundtrip
    /\ DOMAIN mapper.input = {"country"}
    /\ mapper.input.country = S(<<" ", "U", "S", "A", " ">>)
    /\ mapper.result.output = [ email |-> [ mailing_country |->
                                               S(<<"u", "s">>) ] ]

(* the language is an extra supported one, or a newsletter language starts
   with its first two letters *)
SupportedLang(typed) ==
    \/ lower(typed) \in EXTRA_SUPPORTED_LANGS
    \/ lower(prefix(typed, 2)) \in NewsletterLanguages

(* what is sent for a supported language *)
LangSent(out, typed) ==
    /\ Emitted(out, "email", "email_lang")
    /\ out.email.email_lang.s =
           IF lower(typed) \in EXTRA_SUPPORTED_LANGS THEN typed
           ELSE lower(prefix(typed, 2))

(* C22 as stated: 'lang' is sent as email.email_lang, stripped and reduced
   to the base language of the supported list; a language that is not
   supported is left out, and it is never an error. *)
C22_Lang ==
    (ToVendorDone /\ "lang" \in DOMAIN mapper.input
                  /\ ~Blank(mapper.input.lang)) =>
        IF mapper.result.raised THEN mapper.result.key # "lang"
        ELSE LET typed == strip(mapper.input.lang.s)
                 out == mapper.result.output
             IN  IF SupportedLang(typed) THEN LangSent(out, typed)
                 ELSE ~Emitted(out, "email", "email_lang")

(* C22 amended: a language that is not supported is sent as 'en'. *)
C22_LangDefaultsToEn ==
    (ToVendorDone /\ "lang" \in DOMAIN mapper.input
                  /\ ~Blank(mapper.input.lang)) =>
        IF mapper.result.raised THEN mapper.result.key # "lang"
        ELSE LET typed == strip(mapper.input.lang.s)
                 out == mapper.result.output
             IN  IF SupportedLang(typed) THEN LangSent(out, typed)
                 ELSE /\ Emitted(out, "email", "email_lang")
                      /\ out.email.email_lang = S(<<"e", "n">>)

C22_Witness ==
    /\ ToVendorDone /\ ~mapper.roundtrip
    /\ DOMAIN mapper.input = {"lang"}
    /\ mapper.input.lang = S(<<" ", "r", "u">>)
    /\ mapper.result.output = [ email |-> [ email_lang |->
                                               S(<<"e", "n">>) ] ]

(* C23: in CTMS_TO_BASKET_NAMES a basket name is the name of at most one
   (group, field) pair, so that from_vendor writes every key of its output
   from one field of the contact only. *)
C23_UniqueTargets ==
    LET pairs == UNION { {g} \X DOMAIN CTMS_TO_BASKET_NAMES[g] :
                           g \in DOMAIN CTMS_TO_BASKET_NAMES }
        name(p) == CTMS_TO_BASKET_NAMES[p[1]][p[2]]
    IN  /\ \A p, q \in pairs :
              (name(p) # None /\ name(p) = name(q)) => p = q
        /\ mapper.op = "from_vendor" =>
              \A b \in DOMAIN mapper.output \ {"newsletters"} :
                  Cardinality({ p \in pairs :
                                  /\ name(p) = b
                                  /\ p[1] \in DOMAIN mapper.input
                                  /\ p[2] \in DOMAIN mapper.input[p[1]] })
                      = 1

C23_Witness ==
    /\ mapper.op = "from_vendor"
    /\ "email" \in DOMAIN mapper.input /\ "fxa" \in DOMAIN mapper.input
    /\ "primary_email" \in DOMAIN mapper.input.email
    /\ "primary_email" \in DOMAIN mapper.input.fxa
    /\ mapper.output.email = mapper.input.email.primary_email
    /\ mapper.output.fxa_primary_email = mapper.input.fxa.primary_email
    /\ mapper.output.email # mapper.output.fxa_primary_email

-----------------------------------------------------------------------------
(* Properties of the CTMSInterface operations and of the disabled CTMS *)

InterfaceOperations ==
    {"get_by_alternate_id", "get_by_email_id", "post_to_create",
     "put_by_email_id"}

(* C29: every CTMSInterface operation that got its final response raises an
   HTTP error carrying that response, status and body as received, when the
   status is not 2xx, and returns the parsed body otherwise; CTMS.get by
   email_id answered with 404 raises that HTTP error and does not return
   None. *)
C29_HTTPErrors ==
    (resolver.op = "done" /\ resolver.requests # <<>>) =>
        /\ resolver.via \in InterfaceOperations
        /\ IF resolver.status \in 200..299
           THEN resolver.answer = [kind |-> "return", value |-> resolver.body]
           ELSE resolver.answer =
                  [kind |-> "raise", error |-> "HTTPError",
                   response |-> [status_code |-> resolver.status,
                                 json |-> resolver.body]]
        /\ resolver.fn \in InterfaceOperations =>
              resolver.result = resolver.answer
        /\ ( /\ resolver.fn = "CTMS.get"
             /\ resolver.via = "get_by_email_id"
             /\ resolver.status = 404 ) =>
              /\ resolver.result.kind = "raise"
              /\ resolver.result.error = "HTTPError"
              /\ resolver.result.response.status_code = 404

C29_Witness ==
    /\ resolver.op = "done" /\ resolver.fn = "CTMS.get"
    /\ resolver.requests # <<>>
    /\ resolver.via = "get_by_email_id"
    /\ resolver.status = 404
    /\ resolver.body = [detail |-> "Unknown contact_id"]
    /\ resolver.result.kind = "raise"
    /\ resolver.result.response.json = resolver.body

(* C30: with CTMS_ENABLED false, CTMS.get returns None whatever its
   arguments and sends no request. *)
C30_Disabled ==
    (Called /\ resolver.fn = "CTMS.get" /\ ~resolver.CTMS_ENABLED) =>
        /\ resolver.op = "done"
        /\ resolver.requests = <<>>
        /\ resolver.result = [kind |-> "return", value |-> Nil]

C30_Witness ==
    /\ resolver.op = "done" /\ resolver.fn = "CTMS.get"
    /\ ~resolver.CTMS_ENABLED
    /\ resolver.args.email_id = "a-ctms-uuid"
    /\ resolver.args.token = "token"
    /\ resolver.requests = <<>>
    /\ resolver.result = [kind |-> "return", value |-> Nil]

-----------------------------------------------------------------------------
(* Task bodies that write to SFMC and SFDC.  The clock advances by hours, *)
(* so that the two hours a cached timestamp lives can pass.               *)

Hour == 3600

fxa_cache_key(fxa_id) == <<"fxa_email_changed", fxa_id>>

FxaIds == {"uid1"}

(* a key that holds nothing *)
NoEntry == [value |-> 0, expires |-> 0]

(* cache.get(key, default) *)
cache_get(key, default) ==
    IF cache[key].expires > now THEN cache[key].value ELSE default

(* cache.set(key, value, timeout) *)
cache_set(c, key, value, timeout) ==
    [c EXCEPT ![key] = [value |-> value, expires |-> now + timeout]]

(* an event as old as the cached one dropped as well *)
older_or_same(prev_ts, ts) == prev_ts # 0 /\ prev_ts >= ts

(* if prev_ts and prev_ts > ts, tasks.py:225 *)
older(prev_ts, ts) == prev_ts # 0 /\ prev_ts > ts

(* assert_response raises, sfmc.py:137-139 *)
assert_response(resp) == ~resp.status

(* The body returned. *)
Returned(r, called) ==
    [r EXCEPT !.pc = "success", !.at = None, !.vendorCalled = called,
              !.lockedAt = -1, !.state = "SUCCESS"]

(* fxa_email_changed up to its return for an older event, tasks.py:219-226:
   the worker reads the cache and compares.  Between this step and the next
   ones other workers run. *)
FxaCacheGet(t) ==
    LET r == task[t]
        data == r.args
        prev_ts == cache_get(fxa_cache_key(data.uid), 0)
    IN  /\ r.pc = "running" /\ r.at = "body"
        /\ r.name = full_task_name("fxa_email_changed")
        /\ task' = [task EXCEPT ![t] =
                       IF older(prev_ts, data.ts) THEN Returned(r, FALSE)
                       ELSE [r EXCEPT !.at = "upsert_row"]]
        /\ UNCHANGED <<settings, cache, now, QueuedTask, FailedTask, ctms,
                       mapper, resolver, vendor, upsert, sfmc, sqs>>

(* sfmc.upsert_row('FXA_EmailUpdated', ...), tasks.py:228-231 and
   sfmc.py:236-247 *)
FxaUpsertRow(t) ==
    LET
        (* Answers of SFMC to row.patch, sfmc.py:246 *)
        PatchResponses ==
            { [status |-> TRUE, results |-> <<"OK">>],
              [status |-> FALSE, results |-> <<"Server", "Error">>] }
    IN
        LET r == task[t]
            data == r.args
        IN  /\ r.pc = "running" /\ r.at = "upsert_row"
            /\ \E resp \in PatchResponses :
                  IF assert_response(resp)
                  THEN /\ Raise(t, [r EXCEPT !.vendorCalled = TRUE],
                                [type |-> "NewsletterException",
                                 msg |-> resp.results])
                       /\ UNCHANGED vendor
                  ELSE /\ vendor' =
                            [vendor EXCEPT !.FXA_EmailUpdated =
                                Put(@, data.uid, data.email)]
                       /\ task' = [task EXCEPT ![t].at = "cache_set",
                                               ![t].vendorCalled = TRUE]
                       /\ UNCHANGED FailedTask
            /\ UNCHANGED <<settings, cache, now, QueuedTask, ctms, mapper,
                           resolver, upsert, sfmc, sqs>>

(* cache.set(cache_key, ts, 7200), tasks.py:232 *)
FxaCacheSet(t) ==
    LET r == task[t]
        data == r.args
    IN  /\ r.pc = "running" /\ r.at = "cache_set"
        /\ cache' = cache_set(cache, fxa_cache_key(data.uid), data.ts, 7200)
        /\ task' = [task EXCEPT ![t] = Returned(r, TRUE)]
        /\ UNCHANGED <<settings, now, QueuedTask, FailedTask, ctms, mapper,
                       resolver, vendor, upsert, sfmc, sqs>>

(* An hour passes; entries whose timeout elapsed leave the cache. *)
TickHour ==
    /\ now < MaxTime * Hour
    /\ now' = now + Hour
    /\ cache' = [k \in DOMAIN cache |->
                    IF k \in LockKeys
                    THEN IF cache[k] <= now' THEN 0 ELSE cache[k]
                    ELSE IF cache[k].expires <= now' THEN NoEntry
                         ELSE cache[k]]
    /\ UNCHANGED <<settings, task, QueuedTask, FailedTask, ctms, mapper,
                   resolver, vendor, upsert, sfmc, sqs>>

(* A name is the sequence of its words; None is Nil. *)
W(words) == [w |-> words]

(* (data.get(name) or '').strip(), tasks.py:1057-1058 *)
stripped(v) == IF v = Nil THEN <<>> ELSE v.w

(* last_name.rsplit(None, 1), tasks.py:1066-1070 *)
rsplit(names) ==
    IF Len(names) >= 2
    THEN << SubSeq(names, 1, Len(names) - 1), <<names[Len(names)]>> >>
    ELSE << <<>>, names >>

(* the names process_donation sends, tasks.py:1057-1074 *)
donor_names(data) ==
    LET first_name == stripped(data.first_name)
        last_name == stripped(data.last_name)
    IN  IF first_name # <<>> /\ last_name # <<>>
        THEN [first_name |-> first_name, last_name |-> last_name]
        ELSE IF first_name # <<>>
        THEN [first_name |-> first_name]
        ELSE IF last_name # <<>>
        THEN LET first == rsplit(data.last_name.w)[1]
                 last == rsplit(data.last_name.w)[2]
             IN  Merge(IF first # <<>> THEN [first_name |-> first]
                       ELSE EmptyDict,
                       IF last # <<>> THEN [last_name |-> last]
                       ELSE EmptyDict)
        ELSE EmptyDict

(* tasks.py:1079-1081 *)
names_differ(contact_data, user_data) ==
    \/ /\ "first_name" \in DOMAIN contact_data
       /\ contact_data.first_name # user_data.first_name
    \/ /\ "last_name" \in DOMAIN contact_data
       /\ contact_data.last_name # user_data.last_name

(* A contact sfdc.add makes of contact_data. *)
NewContact(contact_data) ==
    Merge([id |-> "id1", token |-> "generated-token",
           first_name |-> <<>>, last_name |-> <<>>], contact_data)

RetryTaskNotAvailable ==
    [type |-> "RetryTask", msg |-> <<"User", "not", "yet", "available">>]

SalesforceMalformedRequest(content) ==
    [type |-> "SalesforceMalformedRequest",
     msg |-> <<"Malformed", "request.", "Response", "content:">>,
     content |-> content]

(* Answers of SFDC to a create: it refuses a row it already holds. *)
CreateAnswers(held) ==
    IF held
    THEN { SalesforceMalformedRequest(<<[errorCode |-> "DUPLICATE_VALUE"]>>),
           [type |-> "SalesforceGeneralError",
            msg |-> <<"Server", "Error">>] }
    ELSE { [type |-> "created"],
           SalesforceMalformedRequest(
               <<[errorCode |-> "REQUIRED_FIELD_MISSING"]>>),
           SalesforceMalformedRequest(
               <<[errorCode |-> "REQUIRED_FIELD_MISSING"],
                 [errorCode |-> "DUPLICATE_VALUE"]>>),
           SalesforceMalformedRequest(<<[message |-> "bad request"]>>),
           SalesforceMalformedRequest(<<>>),
           [type |-> "SalesforceGeneralError",
            msg |-> <<"Server", "Error">>] }

(* every malformed request taken for a duplicate *)
is_duplicate_any(e) == TRUE

(* e.content and e.content[0].get('errorCode') == 'DUPLICATE_VALUE',
   tasks.py:1124 and 1199 *)
is_duplicate(e) ==
    /\ e.content # <<>>
    /\ "errorCode" \in DOMAIN e.content[1]
    /\ e.content[1].errorCode = "DUPLICATE_VALUE"

(* What makes a record of SFDC the only one of its kind. *)
record_key(table, row) ==
    IF table = "opportunity" THEN <<row.PMT_Transaction_ID__c>>
    ELSE <<row.CampaignId, row.ContactId>>

(* try: create(row) except SalesforceMalformedRequest, tasks.py:1121-1128
   and 1196-1203; v is what the vendor holds when create is called. *)
Create(t, r, table, row, v) ==
    \E a \in CreateAnswers(\E i \in 1..Len(v[table]) :
                              record_key(table, v[table][i])
                                  = record_key(table, row)) :
       LET answer == Merge(a, [by |-> <<t, r.executions>>])
       IN  IF a.type = "created"
           THEN /\ vendor' = [v EXCEPT ![table] = Append(@, row),
                                       !.answer = answer]
                /\ task' = [task EXCEPT ![t] = Returned(r, TRUE)]
                /\ UNCHANGED FailedTask
           ELSE IF a.type = "SalesforceMalformedRequest" /\ is_duplicate(a)
           THEN /\ vendor' = [v EXCEPT !.answer = answer]
                /\ task' = [task EXCEPT ![t] = Returned(r, TRUE)]
                /\ UNCHANGED FailedTask
           ELSE /\ vendor' = [v EXCEPT !.answer = answer]
                /\ Raise(t, r, a)

(* get_lock at the head of a body, tasks.py:76-93 *)
LockFree(key) ==
    ~settings.TASK_LOCKING_ENABLE \/ cache_add(lock_key("task", key))

Locked(key) ==
    IF settings.TASK_LOCKING_ENABLE
    THEN [cache EXCEPT ![lock_key("task", key)] = now + TASK_LOCK_TIMEOUT]
    ELSE cache

(* tasks.py:1051-1128 *)
ProcessDonation(t) ==
    LET r == task[t]
        data == r.args
        called == [r EXCEPT !.vendorCalled = TRUE]
        contact_data == Merge([_set_subscriber |-> FALSE], donor_names(data))
        donation(id) == [ Donation_Contact__c |-> id,
                          PMT_Transaction_ID__c |-> data.transaction_id ]
    IN  /\ r.pc = "running" /\ r.at = "body"
        /\ r.name = full_task_name("process_donation")
        /\ IF ~LockFree(data.email)
           THEN /\ Raise(t, r, RetryTaskNoLock)
                /\ UNCHANGED <<cache, vendor>>
           ELSE /\ cache' = Locked(data.email)
                /\ IF data.email \in DOMAIN vendor.contacts
                   THEN LET user_data == vendor.contacts[data.email]
                        IN  Create(t, called, "opportunity",
                                   donation(user_data.id),
                                   IF names_differ(contact_data, user_data)
                                   THEN [vendor EXCEPT
                                           !.contacts[data.email] =
                                               Merge(@, contact_data)]
                                   ELSE vendor)
                   ELSE LET added ==
                              [vendor EXCEPT !.contacts =
                                  Put(@, data.email,
                                      NewContact(contact_data))]
                        IN  \E id \in {None, "id1"} :
                              IF id = None
                              THEN /\ vendor' = added
                                   /\ Raise(t, called, RetryTaskNotAvailable)
                              ELSE Create(t, called, "opportunity",
                                          donation(id), added)
        /\ UNCHANGED <<settings, now, QueuedTask, ctms, mapper, resolver,
                       upsert, sfmc, sqs>>

PETITION_CONTACT_FIELDS ==
    {"first_name", "last_name", "country", "postal_code", "source_url"}

(* tasks.py:1147-1203 *)
ProcessPetitionSignature(t) ==
    LET
        Min(a, b) == IF a < b THEN a ELSE b
    IN
        LET r == task[t]
            data == r.args.form
            called == [r EXCEPT !.vendorCalled = TRUE]
            contact_data ==
                Merge([_set_subscriber |-> FALSE],
                      [k \in { f \in PETITION_CONTACT_FIELDS \cap DOMAIN data :
                                 data[f] # Nil /\ data[f] # W(<<>>) }
                         |-> data[k]])
            campaign_member(id) ==
                Merge([ CampaignId |-> data.campaign_id, ContactId |-> id,
                        Full_URL__c |-> data.source_url, Status |-> "Signed" ],
                      IF data.comments > 0
                      THEN [Petition_Comments__c |-> Min(data.comments, 500)]
                      ELSE EmptyDict)
            subscribed(v) ==
                IF data.email_subscription
                THEN [v EXCEPT !.delayed =
                        Append(@, [task |-> "upsert_user",
                                   api_call_type |-> "SUBSCRIBE",
                                   token |-> v.contacts[data.email].token,
                                   newsletters |-> "mozilla-foundation"])]
                ELSE v
        IN  /\ r.pc = "running" /\ r.at = "body"
            /\ r.name = full_task_name("process_petition_signature")
            /\ IF ~LockFree(data.email)
               THEN /\ Raise(t, r, RetryTaskNoLock)
                    /\ UNCHANGED <<cache, vendor>>
               ELSE /\ cache' = Locked(data.email)
                    /\ IF data.email \in DOMAIN vendor.contacts
                       THEN LET user_data == vendor.contacts[data.email]
                                updated == [vendor EXCEPT
                                              !.contacts[data.email] =
                                                  Merge(@, contact_data)]
                            IN  Create(t, called, "campaign_member",
                                       campaign_member(user_data.id),
                                       subscribed(updated))
                       ELSE LET added ==
                                  [vendor EXCEPT !.contacts =
                                      Put(@, data.email,
                                          NewContact(contact_data))]
                            IN  \E fetched \in BOOLEAN :
                                  IF ~fetched
                                  THEN /\ vendor' = added
                                       /\ Raise(t, called, RetryTaskNotAvailable)
                                  ELSE Create(t, called, "campaign_member",
                                              campaign_member("id1"),
                                              subscribed(added))
            /\ UNCHANGED <<settings, now, QueuedTask, ctms, mapper, resolver,
                           upsert, sfmc, sqs>>

(* Two invocations of fxa_email_changed, on parallel workers. *)
InitTasks ==
    LET
        FxaCacheKeys == { fxa_cache_key(u) : u \in FxaIds }

        FxaEvents ==
            [ ts : {10, 20}, uid : FxaIds, email : {"new@example.com"} ]
    IN
        /\ settings \in { s \in SettingsSet :
                            /\ ~s.MAINTENANCE_MODE /\ ~s.READ_ONLY_MODE
                            /\ s.STORE_TASK_FAILURES }
        /\ \E e1 \in FxaEvents, e2 \in FxaEvents :
              task = [t \in Tasks |->
                        NewTask(full_task_name("fxa_email_changed"),
                                [IF t = 1 THEN e1 ELSE e2 EXCEPT
                                    !.email = IF t = 1 THEN "new1@example.com"
                                              ELSE "new2@example.com"])]
        /\ cache = [k \in LockKeys \cup FxaCacheKeys |->
                      IF k \in LockKeys THEN 0 ELSE NoEntry]
        /\ now = 0
        /\ sfmc = NoCall
        /\ sqs = NoCall
        /\ QueuedTask = <<>>
        /\ FailedTask = <<>>
        /\ ctms = CtmsNew(Nil)
        /\ mapper = NoCall
        /\ resolver = NoCall
        /\ vendor = NoVendor
        /\ upsert = NoCall

NextTasks ==
    \/ \E t \in Tasks : \/ Execute(t)
                        \/ Retry(t)
                        \/ FxaCacheGet(t)
                        \/ FxaUpsertRow(t)
                        \/ FxaCacheSet(t)
    \/ TickHour

SpecTasks == InitTasks /\ [][NextTasks]_vars

(* One invocation of process_donation or process_petition_signature. *)
InitDonations ==
    LET
        Donations ==
            [ email : {"a@example.com"},
              first_name : {Nil, W(<<"Jane">>)},
              last_name : {Nil, W(<<"Doe">>), W(<<"Jane", "Doe">>)},
              transaction_id : {"tx1", "tx2"} ]

        Petitions ==
            [ email : {"a@example.com"},
              first_name : {Nil, W(<<"Jane">>)},
              source_url : {W(<<"https://petition.example.com">>)},
              campaign_id : {"campaign1", "campaign2"},
              comments : {0, 501},
              email_subscription : BOOLEAN ]

        (* What SFDC holds when a donation or a signature is processed: nothing,
           the contact, or the contact and the record of an earlier processing. *)
        Held ==
            LET
                JaneDoe ==
                    [ id |-> "id1", token |-> "token1",
                      first_name |-> <<"Jane">>, last_name |-> <<"Doe">> ]
            IN
                LET known == [NoVendor EXCEPT !.contacts =
                                 [e \in {"a@example.com"} |-> JaneDoe]]
                IN  { NoVendor, known,
                      [known EXCEPT !.opportunity =
                          << [ Donation_Contact__c |-> "id1",
                               PMT_Transaction_ID__c |-> "tx1" ] >>,
                                    !.campaign_member =
                          << [ CampaignId |-> "campaign1", ContactId |-> "id1",
                               Full_URL__c |-> W(<<"https://petition.example.com">>),
                               Status |-> "Signed" ] >>] }
    IN
        /\ settings \in { s \in SettingsSet :
                            /\ ~s.MAINTENANCE_MODE /\ ~s.READ_ONLY_MODE
                            /\ s.STORE_TASK_FAILURES }
        /\ \E args \in Donations \cup [form : Petitions] :
              task = [t \in Tasks |->
                        IF t # 1 THEN AbsentTask
                        ELSE IF "form" \in DOMAIN args
                        THEN NewTask(full_task_name("process_petition_signature"),
                                     args)
                        ELSE NewTask(full_task_name("process_donation"), args)]
        /\ vendor \in Held
        /\ cache = [k \in LockKeys |-> 0]
        /\ now = 0
        /\ sfmc = NoCall
        /\ sqs = NoCall
        /\ QueuedTask = <<>>
        /\ FailedTask = <<>>
        /\ ctms = CtmsNew(Nil)
        /\ mapper = NoCall
        /\ resolver = NoCall
        /\ upsert = NoCall

NextDonations ==
    \/ \E t \in Tasks : \/ Execute(t)
                        \/ Retry(t)
                        \/ ProcessDonation(t)
                        \/ ProcessPetitionSignature(t)
    \/ Tick

SpecDonations == InitDonations /\ [][NextDonations]_vars

-----------------------------------------------------------------------------
(* Properties of the task bodies *)

(* invocation t leaves the body of task func in this step *)
BodyEnds(t, func) ==
    /\ task[t].name = full_task_name(func)
    /\ task[t].pc = "running" /\ task[t].at = "body"
    /\ task'[t].pc # "running"

(* C27: fxa_email_changed compares the timestamp of its event with the one
   cached for the account: an event older than the cached timestamp ends
   there, writes no row and leaves the cache as it is; any other event
   upserts the row, and only when that write succeeded the cache takes the
   timestamp of the event, for 7200 seconds: a failed write ends the attempt
   with the cache as it is. *)
C27_EmailChangedOnce ==
    [][ \A t \in Tasks :
          LET r == task[t]
              r2 == task'[t]
              data == r.args
              key == fxa_cache_key(data.uid)
              live == cache[key].expires > now
          IN  ( /\ r.name = full_task_name("fxa_email_changed")
                /\ r.pc = "running" /\ r2 # r ) =>
                IF r.at = "body"
                THEN /\ vendor' = vendor /\ cache' = cache
                     /\ IF live /\ cache[key].value > data.ts
                        THEN r2.pc = "success" /\ ~r2.vendorCalled
                        ELSE r2.pc = "running" /\ r2.at = "upsert_row"
                ELSE IF r.at = "upsert_row"
                THEN /\ cache' = cache
                     /\ IF r2.pc = "running"
                        THEN /\ r2.at = "cache_set"
                             /\ vendor'.FXA_EmailUpdated[data.uid] = data.email
                        ELSE /\ vendor' = vendor
                             /\ r2.exc.type = "NewsletterException"
                             /\ r2.pc # "success"
                ELSE /\ r.at = "cache_set"
                     /\ r2.pc = "success"
                     /\ vendor' = vendor
                     /\ cache'[key] = [value |-> data.ts,
                                       expires |-> now + 2 * Hour]
                     /\ \A k \in DOMAIN cache \ {key} : cache'[k] = cache[k]
      ]_vars

(* the older event of account uid1 ended without a write, after the newer
   one was applied *)
C27_Witness ==
    /\ task[1].name = full_task_name("fxa_email_changed")
    /\ task[1].pc = "success" /\ task[2].pc = "success"
    /\ task[1].args.ts = 20 /\ task[2].args.ts = 10
    /\ ~task[2].vendorCalled
    /\ vendor.FXA_EmailUpdated = [uid1 |-> "new1@example.com"]
    /\ cache[fxa_cache_key("uid1")].value = 20

(* the event of invocation t was applied: its row was written *)
Applied(t) ==
    /\ task[t].name = full_task_name("fxa_email_changed")
    /\ task[t].vendorCalled
    /\ \/ task[t].pc = "success"
       \/ task[t].pc = "running" /\ task[t].at = "cache_set"

(* C35: for any interleaving of the invocations of fxa_email_changed for an
   account, the timestamp cached for the account does not decrease while the
   entry lives, and as long as no entry can have expired, the address the
   vendor holds for the account is that of an applied event with the
   greatest timestamp. *)
C35_NewestWins ==
    [][ \A uid \in FxaIds :
          LET key == fxa_cache_key(uid)
              applied == { t \in Tasks : Applied(t)' /\ task[t].args.uid = uid }
          IN  /\ (cache[key].expires > now /\ cache'[key].expires > now') =>
                    cache'[key].value >= cache[key].value
              /\ (applied # {} /\ now' < 2 * Hour) =>
                    \E t \in applied :
                        /\ \A u \in applied :
                              task[u].args.ts <= task[t].args.ts
                        /\ vendor'.FXA_EmailUpdated[uid] = task[t].args.email
      ]_vars

(* the first error of a malformed request says DUPLICATE_VALUE *)
SaysDuplicate(a) ==
    /\ a.type = "SalesforceMalformedRequest"
    /\ a.content # <<>>
    /\ "errorCode" \in DOMAIN a.content[1]
    /\ a.content[1].errorCode = "DUPLICATE_VALUE"

NoTwice(records, table) ==
    \A i, j \in 1..Len(records) :
        record_key(table, records[i]) = record_key(table, records[j])
            => i = j

(* C28: when SFDC answers the create of process_donation or of
   process_petition_signature with a malformed request whose error code is
   DUPLICATE_VALUE, the task succeeds, its retry count stays, no FailedTask
   row is written and no record is added, so that no donation or signature
   is held twice; a malformed request with any other content is raised to
   the envelope, which schedules a retry while retries remain. *)
C28_DuplicateIgnored ==
    [][ \A t \in Tasks :
          ( /\ \/ BodyEnds(t, "process_donation")
               \/ BodyEnds(t, "process_petition_signature")
            /\ vendor'.answer.by = <<t, task[t].executions>>
            /\ vendor'.answer.type = "SalesforceMalformedRequest" ) =>
              IF SaysDuplicate(vendor'.answer)
              THEN /\ task'[t].pc = "success"
                   /\ task'[t].state = "SUCCESS"
                   /\ task'[t].retries = task[t].retries
                   /\ task'[t].exc = NoExc
                   /\ FailedTask' = FailedTask
                   /\ vendor'.opportunity = vendor.opportunity
                   /\ vendor'.campaign_member = vendor.campaign_member
                   /\ NoTwice(vendor'.opportunity, "opportunity")
                   /\ NoTwice(vendor'.campaign_member, "campaign_member")
              ELSE /\ task'[t].exc.type = "SalesforceMalformedRequest"
                   /\ task'[t].exc.content = vendor'.answer.content
                   /\ IF task[t].retries < max_retries
                      THEN /\ task'[t].pc = "retry_scheduled"
                           /\ task'[t].retries = task[t].retries + 1
                      ELSE task'[t].pc = "failed_fatal" ]_vars

(* a donation that SFDC already held was processed again *)
C28_Witness ==
    /\ task[1].name = full_task_name("process_donation")
    /\ task[1].pc = "success"
    /\ task[1].args.transaction_id = "tx1"
    /\ SaysDuplicate(vendor.answer)
    /\ vendor.answer.by = <<1, task[1].executions>>
    /\ Len(vendor.opportunity) = 1
    /\ FailedTask = <<>>

-----------------------------------------------------------------------------
(* upsert_contact.  A call is drawn with its arguments and with what      *)
(* parse_newsletters answers; the action runs the whole function.         *)

(* Newsletter rows: slug, requires_double_optin and the vendor's field *)
NewsletterRows ==
    [ exempt |-> [requires_double_optin |-> FALSE, vendor_id |-> "EXEMPT"],
      double |-> [requires_double_optin |-> TRUE, vendor_id |-> "DOUBLE"] ]

(* get_transactional_message_ids() *)
TransactionalIds == {"tx-msg"}

(* generate_token(): an identifier no contact holds yet *)
generate_token == "generated-token"

(* 'T' if data['format'].upper().startswith('T') else 'H', tasks.py:407-408 *)
format_code(format) ==
    IF format \in {"T", "t", "text", "Text", "TEXT"} THEN "T" ELSE "H"

(* the confirmation skipped only when no subscribed newsletter asks for it *)
exempt_from_all(to_subscribe) ==
    \A slug \in to_subscribe \cap DOMAIN NewsletterRows :
        ~NewsletterRows[slug].requires_double_optin

(* Newsletter.objects.filter(slug__in=to_subscribe,
   requires_double_optin=False).exists(), tasks.py:442-444 *)
exempt_from_confirmation(to_subscribe) ==
    \E slug \in to_subscribe \cap DOMAIN NewsletterRows :
        ~NewsletterRows[slug].requires_double_optin

(* the flag cleared by every operation *)
clears_optout_always(api_call_type, user_data) == user_data.optout

(* tasks.py:480 *)
clears_optout(api_call_type, user_data) ==
    api_call_type # "UNSUBSCRIBE" /\ user_data.optout

(* a new token for every update *)
update_token_new(user_data) == generate_token

(* the token of an update, tasks.py:484-487 *)
update_token(user_data) ==
    IF Truthy(user_data.token) THEN user_data.token ELSE generate_token

(* A task submitted with the argument data, before its first attempt:
   original keeps the data as submitted, data is the argument object as the
   attempt about to run finds it, arg the same object once the attempt has
   run. *)
Submitted(fn, api_call_type, data, user_data, parsed) ==
    [ op |-> "pending", fn |-> fn, api_call_type |-> api_call_type,
      data |-> data, original |-> data, retries |-> 0,
      user_data |-> user_data, parsed |-> parsed ]

(* the vendor written directly whatever the mode *)
write_call_direct(MAINTENANCE_MODE, user_data) ==
    IF user_data = Nil THEN "sfdc.add" ELSE "sfdc.update"

(* the call that carries the write, tasks.py:467-471 and 489-492 *)
write_call(MAINTENANCE_MODE, user_data) ==
    IF MAINTENANCE_MODE THEN "sfdc_add_update.delay"
    ELSE IF user_data = Nil THEN "sfdc.add" ELSE "sfdc.update"

(* tasks.py:396-494 *)
UpsertContact ==
    LET api_call_type == upsert.api_call_type
        data == upsert.data
        user_data == upsert.user_data
        forced_optin == "optin" \in DOMAIN data /\ data.optin
        formatted ==
            IF "format" \in DOMAIN data
            THEN Put(data, "format", format_code(data.format))
            ELSE data
        transactionals ==
            IF api_call_type = "SUBSCRIBE"
            THEN data.newsletters \cap TransactionalIds ELSE {}
        newsletters == data.newsletters \ transactionals
        parsed == Put(formatted, "newsletters", upsert.parsed)
        to_subscribe == { nl \in DOMAIN upsert.parsed : upsert.parsed[nl] }
        opted_in == user_data # Nil /\ user_data.optin
        confirmed ==
            IF /\ api_call_type # "UNSUBSCRIBE"
               /\ to_subscribe # {}
               /\ ~(forced_optin \/ opted_in)
               /\ exempt_from_confirmation(to_subscribe)
            THEN Put(parsed, "optin", TRUE)
            ELSE parsed
        email == IF "email" \in DOMAIN confirmed THEN confirmed.email
                 ELSE IF user_data # Nil THEN user_data.email ELSE None
        nl_list == IF api_call_type = "SUBSCRIBE" THEN newsletters
                   ELSE to_subscribe
        source_urls ==
            IF api_call_type # "UNSUBSCRIBE" /\ Truthy(email)
            THEN { NewsletterRows[nlid].vendor_id :
                     nlid \in nl_list \cap DOMAIN NewsletterRows }
            ELSE {}
        forced == IF forced_optin /\ ~opted_in
                  THEN Put(confirmed, "optin", TRUE) ELSE confirmed
        cleared == IF clears_optout(api_call_type, user_data)
                   THEN Put(forced, "optout", FALSE) ELSE forced
        token == update_token(user_data)
        updated == IF Truthy(user_data.token) THEN cleared
                   ELSE Put(cleared, "token", token)
        created == Put(confirmed, "token", generate_token)
        Done(sent, recorded, written, result) ==
            [ op |-> "done", fn |-> upsert.fn,
              api_call_type |-> api_call_type,
              data |-> data, user_data |-> user_data,
              original |-> upsert.original, retries |-> upsert.retries,
              arg |-> [x \in DOMAIN data \ {"optin"} |-> data[x]],
              parsed |-> upsert.parsed, sent |-> sent,
              source_urls |-> recorded, written |-> written,
              result |-> result ]
    IN  /\ upsert.op = "pending" /\ upsert.fn = "upsert_user"
        /\ IF transactionals # {} /\ newsletters = {}
           THEN upsert' = Done(transactionals, {}, Nil,
                               [kind |-> "return", token |-> None,
                                created |-> Nil])
           ELSE IF user_data = Nil
           THEN IF settings.MAINTENANCE_MODE
                THEN upsert' =
                       Done(transactionals, source_urls,
                            [call |-> write_call(settings.MAINTENANCE_MODE,
                                                 user_data),
                             update_data |-> created, user_data |-> Nil],
                            [kind |-> "return", token |-> created.token,
                             created |-> B(TRUE)])
                ELSE \E ok \in BOOLEAN :
                       upsert' =
                         Done(transactionals, source_urls,
                              [call |-> write_call(settings.MAINTENANCE_MODE,
                                                 user_data),
                               update_data |-> created, user_data |-> Nil],
                              IF ok
                              THEN [kind |-> "return",
                                    token |-> created.token,
                                    created |-> B(TRUE)]
                              ELSE [kind |-> "raise",
                                    error |-> "SalesforceGeneralError"])
           ELSE IF settings.MAINTENANCE_MODE
                THEN upsert' =
                       Done(transactionals, source_urls,
                            [call |-> write_call(settings.MAINTENANCE_MODE,
                                                 user_data),
                             update_data |-> updated,
                             user_data |-> user_data],
                            [kind |-> "return", token |-> token,
                             created |-> B(FALSE)])
                ELSE \E ok \in BOOLEAN :
                       upsert' =
                         Done(transactionals, source_urls,
                              [call |-> write_call(settings.MAINTENANCE_MODE,
                                                 user_data),
                               update_data |-> updated,
                               user_data |-> user_data],
                              IF ok
                              THEN [kind |-> "return", token |-> token,
                                    created |-> B(FALSE)]
                              ELSE [kind |-> "raise",
                                    error |-> "SalesforceGeneralError"])
        /\ UNCHANGED <<envVars, ctms, mapper, resolver, vendor, sfmc, sqs>>

InitUpsert ==
    LET
        API_CALL_TYPES == {"SUBSCRIBE", "UNSUBSCRIBE", "SET"}

        (* POST data of the form; newsletters is the list parse_newsletters_csv
           makes of the field. *)
        UpsertData ==
            LET
                (* a dict with key k or without it *)
                Optional(k, values) ==
                    {EmptyDict} \cup { [x \in {k} |-> v] : v \in values }
            IN
                { Merge(Merge(Merge(Merge(a, b), c), e), [newsletters |-> n]) :
                    a \in Optional("optin", BOOLEAN),
                    b \in Optional("optout", {TRUE}),
                    c \in Optional("format", {"text", "html"}),
                    e \in Optional("email", {"a@example.com"}),
                    n \in SUBSET (DOMAIN NewsletterRows \cup TransactionalIds) }

        (* what get_user_data found: None or the contact *)
        UserData ==
            {Nil} \cup
            [ token : {None, "", "token1"}, optin : BOOLEAN, optout : BOOLEAN,
              email : {"a@example.com"} ]

        (* answers of parse_newsletters: a flag for some of the newsletters *)
        ParsedNewsletters ==
            UNION { [slugs -> BOOLEAN] : slugs \in SUBSET DOMAIN NewsletterRows }
    IN
        /\ settings \in { s \in SettingsSet :
                            /\ ~s.READ_ONLY_MODE /\ s.TASK_LOCKING_ENABLE
                            /\ s.STORE_TASK_FAILURES }
        /\ task = [t \in Tasks |-> AbsentTask]
        /\ cache = EmptyCache
        /\ now = 0
        /\ sfmc = NoCall
        /\ sqs = NoCall
        /\ QueuedTask = <<>>
        /\ FailedTask = <<>>
        /\ ctms = CtmsNew(Nil)
        /\ mapper = NoCall
        /\ resolver = NoCall
        /\ vendor = NoVendor
        /\ upsert \in { Submitted("upsert_user", a, dd, u, nl) :
                            a \in API_CALL_TYPES, dd \in UpsertData,
                            u \in UserData, nl \in ParsedNewsletters }

NextUpsert == UpsertContact

SpecUpsert == InitUpsert /\ [][NextUpsert]_vars

-----------------------------------------------------------------------------
(* Properties of upsert_contact *)

(* the call ended without an exception of the vendor *)
UpsertReturned == upsert.op = "done" /\ upsert.result.kind = "return"

(* the record handed to the vendor carries a generated token *)
WritesNewToken ==
    /\ upsert.written # Nil
    /\ "token" \in DOMAIN upsert.written.update_data
    /\ upsert.written.update_data.token = generate_token

(* what C24 says of a call that returned *)
CreateOrUpdate ==
    /\ upsert.user_data = Nil =>
          /\ WritesNewToken
          /\ upsert.result.token = generate_token
          /\ upsert.result.created = B(TRUE)
    /\ (upsert.user_data # Nil /\ Truthy(upsert.user_data.token)) =>
          /\ upsert.result.token = upsert.user_data.token
          /\ upsert.result.created = B(FALSE)
          /\ upsert.written # Nil
          /\ ~WritesNewToken
    /\ (upsert.user_data # Nil /\ WritesNewToken) =>
          ~Truthy(upsert.user_data.token)

(* the call is a SUBSCRIBE of transactional messages only *)
OnlyTransactional ==
    /\ upsert.api_call_type = "SUBSCRIBE"
    /\ upsert.data.newsletters # {}
    /\ upsert.data.newsletters \subseteq TransactionalIds

(* C24 as stated: a call of upsert_contact that returns has, when no contact
   was found, written a record with a newly generated token and returned
   that token and created = true; when a contact with a token was found,
   returned that token and created = false and written an update without a
   generated token; an update carries a generated token only when the
   contact has none. *)
C24_CreateOrUpdate ==
    UpsertReturned => CreateOrUpdate

(* C24 amended: the same for every call but a SUBSCRIBE whose newsletters
   are all transactional messages, which sends the messages, writes nothing
   and returns (None, None). *)
C24_CreateOrUpdateUnlessTransactional ==
    UpsertReturned =>
        IF OnlyTransactional
        THEN /\ upsert.written = Nil
             /\ upsert.sent = upsert.data.newsletters
             /\ upsert.result.token = None
             /\ upsert.result.created = Nil
        ELSE CreateOrUpdate

C24_Witness ==
    /\ UpsertReturned
    /\ upsert.api_call_type = "SET"
    /\ upsert.user_data # Nil
    /\ upsert.user_data.token = "token1"
    /\ upsert.written # Nil
    /\ upsert.written.call = "sfdc.update"
    /\ "token" \notin DOMAIN upsert.written.update_data
    /\ upsert.result.token = "token1"

(* C25: an update of a contact whose optout is set carries optout = false
   when the operation is not UNSUBSCRIBE; an UNSUBSCRIBE writes the optout
   of its data, or none, and never optout = false. *)
C25_OptoutCleared ==
    ( /\ upsert.op = "done" /\ upsert.written # Nil
      /\ upsert.user_data # Nil /\ upsert.user_data.optout ) =>
        LET update_data == upsert.written.update_data
        IN  IF upsert.api_call_type # "UNSUBSCRIBE"
            THEN /\ "optout" \in DOMAIN update_data
                 /\ update_data.optout = FALSE
            ELSE /\ ("optout" \in DOMAIN update_data)
                        = ("optout" \in DOMAIN upsert.data)
                 /\ "optout" \in DOMAIN update_data =>
                        update_data.optout = TRUE

C25_Witness ==
    /\ upsert.op = "done" /\ upsert.written # Nil
    /\ upsert.api_call_type = "SUBSCRIBE"
    /\ upsert.user_data # Nil /\ upsert.user_data.optout
    /\ "optout" \in DOMAIN upsert.data
    /\ upsert.written.update_data.optout = FALSE

(* C26: when the data force no opt-in and the contact, if any, is not opted
   in, the written record has optin = true exactly when the operation is
   not UNSUBSCRIBE and at least one newsletter being subscribed does not
   require double opt-in. *)
C26_SkipsConfirmation ==
    ( /\ upsert.op = "done" /\ upsert.written # Nil
      /\ ~("optin" \in DOMAIN upsert.data /\ upsert.data.optin)
      /\ ~(upsert.user_data # Nil /\ upsert.user_data.optin) ) =>
        LET update_data == upsert.written.update_data
            subscribed == { nl \in DOMAIN upsert.parsed : upsert.parsed[nl] }
            exempt == \E nl \in subscribed :
                         ~NewsletterRows[nl].requires_double_optin
        IN  ("optin" \in DOMAIN update_data /\ update_data.optin)
                <=> (upsert.api_call_type # "UNSUBSCRIBE" /\ exempt)

C26_Witness ==
    /\ upsert.op = "done" /\ upsert.written # Nil
    /\ upsert.api_call_type = "SUBSCRIBE"
    /\ upsert.user_data = Nil
    /\ upsert.data.newsletters = {"exempt", "double"}
    /\ upsert.parsed = [exempt |-> TRUE, double |-> TRUE]
    /\ "optin" \in DOMAIN upsert.data /\ ~upsert.data.optin
    /\ upsert.written.update_data.optin

(* the (token, created) pair of a call that wrote a record: the generated
   token and true for a new contact, the contact's token, or a generated one
   when it has none, and false for an existing contact *)
ReturnedPair(user_data) ==
    [ kind |-> "return",
      token |-> IF user_data # Nil /\ Truthy(user_data.token)
                THEN user_data.token ELSE generate_token,
      created |-> B(user_data = Nil) ]

(* C37: in maintenance mode upsert_contact never calls sfdc.add or
   sfdc.update: where it writes a record, on the create path and on the
   update path alike, it submits sfdc_add_update with the record and the
   contact found, and returns the (token, created) pair that a call outside
   maintenance mode returns for the same contact. *)
C37_MaintenanceQueues ==
    (upsert.op = "done" /\ upsert.written # Nil) =>
        IF settings.MAINTENANCE_MODE
        THEN /\ upsert.written.call = "sfdc_add_update.delay"
             /\ upsert.written.user_data = upsert.user_data
             /\ upsert.result = ReturnedPair(upsert.user_data)
             /\ upsert.user_data = Nil =>
                   upsert.written.update_data.token = upsert.result.token
        ELSE /\ upsert.written.call \in {"sfdc.add", "sfdc.update"}
             /\ upsert.result.kind = "return" =>
                   upsert.result = ReturnedPair(upsert.user_data)

C37_Witness ==
    /\ upsert.op = "done"
    /\ settings.MAINTENANCE_MODE
    /\ upsert.user_data # Nil
    /\ upsert.user_data.token = "token1"
    /\ upsert.written # Nil
    /\ upsert.written.call = "sfdc_add_update.delay"
    /\ upsert.written.user_data = upsert.user_data
    /\ upsert.result.created = B(FALSE)

-----------------------------------------------------------------------------
(* The argument object of a task over its retries: upsert_user,
   record_common_voice_goals, amo_sync_user and amo_sync_addon.  self.retry
   submits the task again with the argument objects of the request, which a
   body that changed them in place has changed for the retry too. *)

MaxAttempts == 2

(* upsert_amo_user_data(data) with the contact get_user_data finds, by amo_id
   or by email: the dict it was given once it returns, and the write it
   makes, tasks.py:1206-1240 *)
upsert_amo_user_data(data, user) ==
    LET rest == DOMAIN data \ {"email", "id", "deleted"}
        amo_deleted == "deleted" \in DOMAIN data /\ data.deleted
        amo_data ==
            Merge([k \in { <<"amo_", x>> : x \in { y \in rest : Truthy(data[y]) } }
                       |-> data[k[2]]],
                  [k \in { <<"amo_user">> } |-> B(~amo_deleted)])
        with_id == Merge(amo_data, [k \in { <<"amo_id">> } |-> data.id])
    IN  [ data |-> [x \in rest |-> data[x]],
          write |->
            IF user # Nil /\ user.found_by = "amo_id"
            THEN [call |-> "sfdc.update", user_data |-> user,
                  update_data |-> amo_data]
            ELSE IF user # Nil
            THEN [call |-> "sfdc.update", user_data |-> user,
                  update_data |-> with_id]
            ELSE [call |-> "sfdc.add", user_data |-> Nil,
                  update_data |->
                    Merge(with_id,
                          [k \in { <<"email">>, <<"source_url">> } |->
                             IF k = <<"email">> THEN data.email
                             ELSE "https://addons.mozilla.org/"])] ]

(* An attempt that ended: what it wrote and how it ended. *)
Attempted(r, arg, written, ok) ==
    [ op |-> "done", fn |-> r.fn, api_call_type |-> r.api_call_type,
      data |-> r.data, user_data |-> r.user_data,
      original |-> r.original, retries |-> r.retries,
      arg |-> arg, parsed |-> r.parsed, written |-> written,
      result |-> IF ok THEN [kind |-> "return"]
                 ELSE [kind |-> "raise", error |-> "SalesforceGeneralError"] ]

(* record_common_voice_goals, tasks.py:680-699 *)
RecordCommonVoiceGoals ==
    LET data == upsert.data
        dcopy == [x \in DOMAIN data \ {"email"} |-> data[x]]
        email == data.email
        user_data == upsert.user_data
        fixed == [k \in { <<"source_url">>, <<"newsletters">> } |->
                    IF k = <<"source_url">> THEN "https://voice.mozilla.org"
                    ELSE "common-voice"]
        new_data == Merge([k \in { <<"cv_", x>> : x \in DOMAIN dcopy }
                              |-> dcopy[k[2]]], fixed)
        added == Merge(new_data,
                       [k \in { <<"email">>, <<"token">> } |->
                          IF k = <<"email">> THEN email ELSE generate_token])
    IN  /\ upsert.op = "pending" /\ upsert.fn = "record_common_voice_goals"
        /\ \E ok \in BOOLEAN :
              upsert' =
                Attempted(upsert, data,
                          IF user_data # Nil
                          THEN << [call |-> "sfdc.update",
                                   user_data |-> user_data,
                                   update_data |-> new_data] >>
                          ELSE << [call |-> "sfdc.add", user_data |-> Nil,
                                   update_data |-> added] >>,
                          ok)
        /\ UNCHANGED <<envVars, ctms, mapper, resolver, vendor, sfmc, sqs>>

(* amo_sync_user, tasks.py:1303-1306 *)
AmoSyncUser ==
    LET copy == upsert.data
        call == upsert_amo_user_data(copy, upsert.user_data)
    IN  /\ upsert.op = "pending" /\ upsert.fn = "amo_sync_user"
        /\ \E ok \in BOOLEAN :
              upsert' = Attempted(upsert, upsert.data, <<call.write>>, ok)
        /\ UNCHANGED <<envVars, ctms, mapper, resolver, vendor, sfmc, sqs>>

(* amo_sync_addon, tasks.py:1253-1299; the authors are written one after the
   other, then the add-on, then the link of each author to it, and any of
   these calls can fail. *)
AmoSyncAddon ==
    LET data == upsert.data          \* the deepcopy the body works on
        authors == data.authors
        users == [i \in 1..Len(authors) |->
                     upsert_amo_user_data(authors[i], upsert.user_data).write]
        amo_compress_categories ==
            { <<c[1], "-", c[2]>> : c \in data.categories }
        addon_data ==
            Merge([ AMO_Category__c |-> amo_compress_categories,
                    AMO_Default_Language__c |-> data.default_locale,
                    AMO_GUID__c |-> data.guid,
                    AMO_Rating__c |-> data.ratings.average,
                    AMO_Slug__c |-> data.slug,
                    AMO_Status__c |-> data.status,
                    AMO_Type__c |-> data.type,
                    AMO_Update__c |-> data.last_updated,
                    Average_Daily_Users__c |-> data.average_daily_users,
                    Dev_Disabled__c |-> IF data.is_disabled THEN "Yes"
                                        ELSE "No",
                    AMO_Current_Version__c |->
                        IF data.current_version # Nil
                        THEN data.current_version.version ELSE "",
                    AMO_Current_Version_Unlisted__c |->
                        IF data.latest_unlisted_version # Nil
                        THEN data.latest_unlisted_version.version ELSE "" ],
                  IF Truthy(data.name) THEN [Name |-> data.name]
                  ELSE EmptyDict)
        addon == [call |-> "sfdc.addon.upsert", id |-> data.id,
                  update_data |-> addon_data]
        links == [i \in 1..Len(authors) |->
                     [call |-> "sfdc.dev_addon.upsert",
                      amo_id |-> authors[i].id, addon |-> data.id]]
        calls == users \o <<addon>> \o links
    IN  /\ upsert.op = "pending" /\ upsert.fn = "amo_sync_addon"
        /\ \E n \in 1..Len(calls), ok \in BOOLEAN :
              /\ ok => n = Len(calls)
              /\ upsert' = Attempted(upsert, upsert.data,
                                     SubSeq(calls, 1, n), ok)
        /\ UNCHANGED <<envVars, ctms, mapper, resolver, vendor, sfmc, sqs>>

(* raise self.retry(...), tasks.py:183-188: the task is submitted again with
   the argument objects of the request as the failed attempt left them. *)
RetryWithArgs ==
    /\ upsert.op = "done"
    /\ upsert.result.kind = "raise"
    /\ upsert.retries < MaxAttempts
    /\ upsert' = [ Submitted(upsert.fn, upsert.api_call_type, upsert.arg,
                             upsert.user_data, upsert.parsed)
                     EXCEPT !.original = upsert.original,
                            !.retries = upsert.retries + 1 ]
    /\ UNCHANGED <<envVars, ctms, mapper, resolver, vendor, sfmc, sqs>>

InitRetryArgs ==
    LET
        Forms ==
            { Merge(Merge(a, b),
                    [email |-> "a@example.com", newsletters |-> n]) :
                a \in { EmptyDict, [optin |-> TRUE], [optin |-> FALSE] },
                b \in { EmptyDict, [format |-> "text"] },
                n \in { {"double"}, {"exempt", "double"}, {"tx-msg"} } }

        Contacts ==
            { Nil,
              [ token |-> "token1", optin |-> FALSE, optout |-> FALSE,
                email |-> "a@example.com" ] }

        Goals ==
            { [ email |-> "a@example.com", days_interval |-> "1" ],
              [ email |-> "a@example.com", days_interval |-> "7",
                created_at |-> "2019-01-01" ] }

        AmoContacts ==
            { Nil, [id |-> "003", found_by |-> "amo_id"],
              [id |-> "003", found_by |-> "email"] }

        AmoUsers ==
            { [ id |-> "1234", email |-> "a@example.com",
                username |-> "dude", display_name |-> "" ],
              [ id |-> "1234", email |-> "a@example.com",
                username |-> "dude", deleted |-> TRUE ] }

        Addons ==
            { [ id |-> "35896", guid |-> "{guid}", slug |-> "ibird",
                status |-> "public", type |-> "extension",
                default_locale |-> "en-US", last_updated |-> "2020-06-10",
                average_daily_users |-> "0", is_disabled |-> d,
                name |-> n, current_version |-> v,
                latest_unlisted_version |-> Nil,
                ratings |-> [average |-> "5"],
                categories |-> { <<"firefox", "feeds">>,
                                 <<"android", "news">> },
                authors |-> a ] :
                d \in BOOLEAN, n \in {None, "Ibird Jelewt"},
                v \in { Nil, [version |-> "1.0"] },
                a \in { <<u>> : u \in AmoUsers } \cup
                      { <<u, u>> : u \in AmoUsers } }
    IN
        /\ settings = [ MAINTENANCE_MODE |-> FALSE, READ_ONLY_MODE |-> FALSE,
                        TASK_LOCKING_ENABLE |-> FALSE,
                        STORE_TASK_FAILURES |-> TRUE ]
        /\ task = [t \in Tasks |-> AbsentTask]
        /\ cache = EmptyCache
        /\ now = 0
        /\ sfmc = NoCall
        /\ sqs = NoCall
        /\ QueuedTask = <<>>
        /\ FailedTask = <<>>
        /\ ctms = CtmsNew(Nil)
        /\ mapper = NoCall
        /\ resolver = NoCall
        /\ vendor = NoVendor
        /\ upsert \in
             { Submitted("upsert_user", a, dd, u, nl) :
                 a \in {"SUBSCRIBE", "SET"}, dd \in Forms, u \in Contacts,
                 nl \in { [double |-> TRUE],
                          [exempt |-> TRUE, double |-> TRUE] } }
             \cup
             { Submitted("record_common_voice_goals", None, dd, u, EmptyDict) :
                 dd \in Goals, u \in Contacts }
             \cup
             { Submitted("amo_sync_user", None, dd, u, EmptyDict) :
                 dd \in AmoUsers, u \in AmoContacts }
             \cup
             { Submitted("amo_sync_addon", None, dd, u, EmptyDict) :
                 dd \in Addons, u \in AmoContacts }

NextRetryArgs ==
    \/ UpsertContact
    \/ RecordCommonVoiceGoals
    \/ AmoSyncUser
    \/ AmoSyncAddon
    \/ RetryWithArgs

SpecRetryArgs == InitRetryArgs /\ [][NextRetryArgs]_vars

(* C33: a retry runs the task with arguments equal to those of the original
   invocation: whenever an attempt after the first is about to run, the
   argument it is given equals the data the task was submitted with, so an
   'optin' of the submitted data is there for the retry of upsert_user. *)
C33_RetryArgsEqual ==
    (upsert.op = "pending" /\ upsert.retries > 0) =>
        upsert.data = upsert.original

-----------------------------------------------------------------------------
(* ETRefreshClient.refresh_token, backends/sfmc.py: the processes of basket
   each have a client and share the tokens through the cache.  Time is in
   seconds; a token is the number the vendor issued it under. *)

HERD_TIMEOUT == 60

AUTH_BUFFER == 300

Procs == {1, 2}

(* seconds between two instants at which something happens *)
SfmcStep == 30

(* instants looked at *)
MaxSfmcSteps == 4

(* what randint(1, HERD_TIMEOUT) gives: the ends of its range and the two
   values around the instants looked at *)
Draws == {1, SfmcStep, SfmcStep + 1, HERD_TIMEOUT}

(* tokens the vendor issues *)
MaxIssued == 2

(* the lifetime the vendor gives a token *)
ExpiresIn == 390

At(t) == [at |-> t]

(* An ETRefreshClient before its first refresh_token. *)
NewClient ==
    [ authToken |-> Nil, authTokenExpiration |-> Nil,
      internalAuthToken |-> Nil, refreshKey |-> Nil,
      authTokenExpiresIn |-> Nil, old_authToken |-> Nil,
      pc |-> "idle",           \* position inside refresh_token
      force_refresh |-> FALSE ]  \* the argument of the call under way

token_property_names ==
    {"authToken", "authTokenExpiration", "internalAuthToken", "refreshKey"}

(* cache.get(self.token_cache_key) *)
sfmc_cache_get == IF sfmc.cache.expires > now THEN sfmc.cache.tokens ELSE Nil

(* a token taken for good until it has expired *)
token_is_expired_late(c, r) ==
    IF c.authTokenExpiration = Nil THEN TRUE
    ELSE now > c.authTokenExpiration.at

(* token_is_expired() when randint(1, HERD_TIMEOUT) gives r, sfmc.py:48-59 *)
token_is_expired(c, r) ==
    IF c.authTokenExpiration = Nil THEN TRUE
    ELSE now + (r + AUTH_BUFFER) > c.authTokenExpiration.at

(* the current tokens are still good, sfmc.py:63 *)
still_good(c) ==
    LET MAX_BUFFER == HERD_TIMEOUT + AUTH_BUFFER
    IN  /\ c.authToken # Nil
        /\ now + MAX_BUFFER < c.authTokenExpiration.at

(* the client after refresh_auth_tokens_from_cache() that found tokens in
   the cache, sfmc.py:67-80 *)
refresh_auth_tokens_from_cache(c, tokens) ==
    IF still_good(c) \/ tokens = Nil \/ DOMAIN tokens = {}
       \/ "garbage" \in DOMAIN tokens
    THEN c
    ELSE LET set == [c EXCEPT
                       !.authToken = IF "authToken" \in DOMAIN tokens
                                     THEN tokens.authToken ELSE @,
                       !.authTokenExpiration =
                           IF "authTokenExpiration" \in DOMAIN tokens
                           THEN tokens.authTokenExpiration ELSE @,
                       !.internalAuthToken =
                           IF "internalAuthToken" \in DOMAIN tokens
                           THEN tokens.internalAuthToken ELSE @,
                       !.refreshKey = IF "refreshKey" \in DOMAIN tokens
                                      THEN tokens.refreshKey ELSE @]
         IN  [set EXCEPT !.old_authToken = set.authToken]

(* refresh_token(force_refresh) up to its request, sfmc.py:109-122: the
   tokens are taken from the cache, something cached that is no dict is
   deleted, and the client decides whether to ask the vendor. *)
SfmcRefreshToken(p) ==
    LET c == sfmc.client[p]
        tokens == sfmc_cache_get
        loaded == refresh_auth_tokens_from_cache(c, tokens)
        deleted == /\ ~still_good(c) /\ tokens # Nil
                   /\ "garbage" \in DOMAIN tokens
    IN  /\ c.pc = "idle"
        /\ \E force_refresh \in BOOLEAN, r \in Draws :
              LET ask == \/ force_refresh
                         \/ loaded.authToken = Nil
                         \/ token_is_expired(loaded, r)
              IN  sfmc' =
                    [sfmc EXCEPT
                       !.cache = IF deleted
                                 THEN [tokens |-> Nil, expires |-> 0] ELSE @,
                       !.client[p] =
                          [loaded EXCEPT
                             !.pc = IF ask THEN "request_token" ELSE "idle",
                             !.force_refresh = force_refresh]]
        /\ UNCHANGED <<envVars, ctms, mapper, resolver, vendor, upsert, sqs>>

(* token_response = self.request_token(payload) and the assignments after
   it, sfmc.py:123-131.  The vendor issues a token, or answers with the one
   the client presented, or the request fails. *)
SfmcRequestToken(p) ==
    LET c == sfmc.client[p]
    IN  /\ c.pc = "request_token"
        /\ \/ \E fresh \in BOOLEAN :
                /\ fresh => sfmc.issued < MaxIssued
                /\ ~fresh => c.authToken # Nil
                /\ LET accessToken == IF fresh THEN [id |-> sfmc.issued + 1]
                                      ELSE c.authToken
                   IN  sfmc' =
                         [sfmc EXCEPT
                            !.issued = IF fresh THEN @ + 1 ELSE @,
                            !.client[p] =
                               [c EXCEPT
                                  !.pc = "cache_auth_tokens",
                                  !.authToken = accessToken,
                                  !.authTokenExpiresIn = ExpiresIn,
                                  !.authTokenExpiration = At(now + ExpiresIn),
                                  !.internalAuthToken =
                                      [legacy |-> accessToken.id],
                                  !.refreshKey =
                                      [refresh |-> accessToken.id]]]
           \/ sfmc' = [sfmc EXCEPT !.client[p].pc = "idle",
                                   !.client[p].force_refresh = FALSE]
        /\ UNCHANGED <<envVars, ctms, mapper, resolver, vendor, upsert, sqs>>

(* self.cache_auth_tokens(), sfmc.py:82-86 and 134 *)
SfmcCacheAuthTokens(p) ==
    LET c == sfmc.client[p]
        new_tokens == [ authToken |-> c.authToken,
                        authTokenExpiration |-> c.authTokenExpiration,
                        internalAuthToken |-> c.internalAuthToken,
                        refreshKey |-> c.refreshKey ]
        entry == [ tokens |-> new_tokens,
                   expires |-> now + (c.authTokenExpiresIn + 600) ]
    IN  /\ c.pc = "cache_auth_tokens"
        /\ IF c.authToken # Nil /\ c.authToken # c.old_authToken
           THEN sfmc' = [sfmc EXCEPT !.cache = entry,
                                     !.client[p].pc = "idle",
                                     !.client[p].force_refresh = FALSE]
           ELSE sfmc' = [sfmc EXCEPT !.client[p].pc = "idle",
                                     !.client[p].force_refresh = FALSE]
        /\ UNCHANGED <<envVars, ctms, mapper, resolver, vendor, upsert, sqs>>

(* Time passes. *)
SfmcTick ==
    /\ now < MaxSfmcSteps * SfmcStep
    /\ now' = now + SfmcStep
    /\ UNCHANGED <<settings, task, cache, QueuedTask, FailedTask, ctms,
                   mapper, resolver, vendor, upsert, sfmc, sqs>>

InitSfmc ==
    /\ settings = [ MAINTENANCE_MODE |-> FALSE, READ_ONLY_MODE |-> FALSE,
                    TASK_LOCKING_ENABLE |-> TRUE,
                    STORE_TASK_FAILURES |-> TRUE ]
    /\ task = [t \in Tasks |-> AbsentTask]
    /\ cache = EmptyCache
    /\ now = 0
    /\ QueuedTask = <<>>
    /\ FailedTask = <<>>
    /\ ctms = CtmsNew(Nil)
    /\ mapper = NoCall
    /\ resolver = NoCall
    /\ vendor = NoVendor
    /\ upsert = NoCall
    /\ sqs = NoCall
    /\ sfmc \in { [ cache |-> e, issued |-> 0,
                    client |-> [p \in Procs |-> NewClient] ] :
                  e \in { [tokens |-> Nil, expires |-> 0],
                          [tokens |-> [garbage |-> TRUE], expires |-> 600] } }

NextSfmc ==
    \/ \E p \in Procs : \/ SfmcRefreshToken(p)
                        \/ SfmcRequestToken(p)
                        \/ SfmcCacheAuthTokens(p)
    \/ SfmcTick

SpecSfmc == InitSfmc /\ [][NextSfmc]_vars

(* the cache holds tokens to adopt *)
Adoptable(tokens) == tokens # Nil /\ "authToken" \in DOMAIN tokens

(* C32: a call of refresh_token by a client whose own token is missing or
   within MAX_BUFFER of its end first takes the tokens the cache holds; it
   then asks the vendor only if the refresh is forced, or it holds no token,
   or its token ends within 360 seconds, and it does ask if the refresh is
   forced, it holds no token or the token ends within 300 seconds.  A token
   the vendor issued is written to the cache, with the three values that go
   with it, exactly when it differs from the token last taken from the
   cache, and the entry lives expiresIn + 600 seconds. *)
C32_SharedTokens ==
    [][ \A p \in Procs :
          LET c == sfmc.client[p]
              c2 == sfmc'.client[p]
              found == sfmc_cache_get
          IN  c2 # c =>
                /\ c.pc = "idle" =>
                      /\ (~still_good(c) /\ Adoptable(found)) =>
                            /\ \A n \in token_property_names :
                                  c2[n] = found[n]
                            /\ c2.old_authToken = c2.authToken
                      /\ (still_good(c) \/ ~Adoptable(found)) =>
                            \A n \in token_property_names : c2[n] = c[n]
                      /\ c2.pc = "request_token" =>
                            \/ c2.force_refresh
                            \/ c2.authToken = Nil
                            \/ c2.authTokenExpiration.at - now
                                  < HERD_TIMEOUT + AUTH_BUFFER
                      /\ c2.pc = "idle" =>
                            /\ ~c2.force_refresh
                            /\ c2.authToken # Nil
                            /\ c2.authTokenExpiration.at - now > AUTH_BUFFER
                      /\ sfmc'.cache # sfmc.cache =>
                            "garbage" \in DOMAIN sfmc.cache.tokens
                      /\ sfmc'.issued = sfmc.issued
                /\ c.pc = "request_token" => sfmc'.cache = sfmc.cache
                /\ c.pc = "cache_auth_tokens" =>
                      IF c.authToken # c.old_authToken
                      THEN /\ sfmc'.cache.tokens =
                                [n \in token_property_names |-> c[n]]
                           /\ sfmc'.cache.expires = now + ExpiresIn + 600
                      ELSE sfmc'.cache = sfmc.cache
      ]_vars

(* process 2 holds the token process 1 was issued, which it took from the
   cache without asking the vendor *)
C32_Witness ==
    /\ sfmc.issued = 1
    /\ sfmc.client[1].authToken = [id |-> 1]
    /\ sfmc.client[1].old_authToken = Nil
    /\ sfmc.client[2].authToken = [id |-> 1]
    /\ sfmc.client[2].old_authToken = [id |-> 1]
    /\ sfmc.client[2].pc = "idle"
    /\ sfmc.cache.tokens.authToken = [id |-> 1]
    /\ sfmc.cache.expires = sfmc.client[1].authTokenExpiration.at + 600

-----------------------------------------------------------------------------
(* The FxA events consumer, management/commands/process_fxa_queue.py.  A
   message stays on the queue until it is deleted, and is received again
   while it is there. *)

(* times a message is received *)
MaxDeliveries == 2

(* the name of an event as its parts between colons *)
event_type(event) ==
    IF "event" \in DOMAIN event THEN event.event ELSE <<"__NONE__">>

(* the tasks of FXA_EVENT_TYPES; a name of several parts, joined with '-',
   is none of its keys *)
FXA_EVENT_TYPES ==
    [ delete |-> "fxa_delete", verified |-> "fxa_verified",
      primaryEmailChanged |-> "fxa_email_changed", login |-> "fxa_login" ]

Handled(name) == Len(name) = 1 /\ name[1] \in DOMAIN FXA_EVENT_TYPES

(* a proxy that fires the task whatever the timestamp *)
FiresAlways(ts, data) == TRUE

(* FxATSProxyTask.delay goes on to self.task.delay(data),
   process_fxa_queue.py:25-30; ts is FXA_LOGIN_CUTOVER_TIMESTAMP *)
Fires(ts, data) == ~(ts = 0 \/ data.ts < ts)

(* the body of a message is JSON with a JSON Message in it *)
IsEvent(body) ==
    /\ body # Nil
    /\ "Message" \in DOMAIN body
    /\ "text" \notin DOMAIN body.Message

(* What the consumer did with the message it received. *)
Handling(m, outcome, deleted, crashed) ==
    [sqs EXCEPT
       !.queue = IF deleted /\ ~crashed THEN @ \ {m} ELSE @,
       !.deliveries[m.id] = @ + 1,
       !.submitted[m.id] = IF outcome = "success" THEN @ + 1 ELSE @,
       !.crashed = crashed,
       !.last = [msg |-> m, outcome |-> outcome, deleted |-> deleted /\ ~crashed]]

(* One turn of the loop over the messages received, process_fxa_queue.py:
   74-105; msg.delete() can fail, which ends the command, as does a body
   that is JSON without a Message. *)
SqsHandle(m) ==
    /\ ~sqs.crashed
    /\ m \in sqs.queue
    /\ sqs.deliveries[m.id] < MaxDeliveries
    /\ IF m.body = Nil
       THEN sqs' = Handling(m, "skipped", FALSE, FALSE)
       ELSE IF "text" \in DOMAIN m.body
               \/ ("Message" \in DOMAIN m.body /\ "text" \in DOMAIN m.body.Message)
       THEN \E failed \in BOOLEAN :
               sqs' = Handling(m, "json_error", TRUE, failed)
       ELSE IF "Message" \notin DOMAIN m.body
       THEN sqs' = Handling(m, "KeyError", FALSE, TRUE)
       ELSE LET event == m.body.Message
                name == event_type(event)
            IN  IF ~Handled(name)
                THEN \E failed \in BOOLEAN :
                        sqs' = Handling(m, "IGNORED", TRUE, failed)
                ELSE IF name = <<"login">> /\ "ts" \notin DOMAIN event
                        /\ sqs.FXA_LOGIN_CUTOVER_TIMESTAMP # 0
                THEN sqs' = Handling(m, "queue_error", FALSE, FALSE)
                ELSE IF name = <<"login">>
                        /\ ~Fires(sqs.FXA_LOGIN_CUTOVER_TIMESTAMP, event)
                THEN \E failed \in BOOLEAN :
                        sqs' = Handling(m, "dropped", TRUE, failed)
                ELSE \/ sqs' = Handling(m, "queue_error", FALSE, FALSE)
                     \/ \E failed \in BOOLEAN :
                           sqs' = Handling(m, "success", TRUE, failed)
    /\ UNCHANGED <<envVars, ctms, mapper, resolver, vendor, upsert, sfmc>>

(* The command is started again after it ended with an error. *)
SqsRestart ==
    /\ sqs.crashed
    /\ sqs' = [sqs EXCEPT !.crashed = FALSE]
    /\ UNCHANGED <<envVars, ctms, mapper, resolver, vendor, upsert, sfmc>>

InitSqs ==
    LET
        Events ==
            { [event |-> <<"verified">>, uid |-> "uid1"],
              [event |-> <<"delete">>, uid |-> "uid1"],
              [event |-> <<"primaryEmailChanged">>, uid |-> "uid1", ts |-> 150],
              [event |-> <<"login">>, uid |-> "uid1", ts |-> 50],
              [event |-> <<"login">>, uid |-> "uid1", ts |-> 150],
              [event |-> <<"login">>, uid |-> "uid1"],
              [event |-> <<"password", "change">>, uid |-> "uid1"],
              [uid |-> "uid1"] }

        Bodies ==
            { Nil, [text |-> "not json"],
              [Message |-> [text |-> "not json"]],
              [Type |-> "Notification"] }
            \cup { [Message |-> e] : e \in Events }

        Ids == {1, 2}
    IN
        /\ settings = [ MAINTENANCE_MODE |-> FALSE, READ_ONLY_MODE |-> FALSE,
                        TASK_LOCKING_ENABLE |-> TRUE,
                        STORE_TASK_FAILURES |-> TRUE ]
        /\ task = [t \in Tasks |-> AbsentTask]
        /\ cache = EmptyCache
        /\ now = 0
        /\ QueuedTask = <<>>
        /\ FailedTask = <<>>
        /\ ctms = CtmsNew(Nil)
        /\ mapper = NoCall
        /\ resolver = NoCall
        /\ vendor = NoVendor
        /\ upsert = NoCall
        /\ sfmc = NoCall
        /\ \E b1 \in Bodies, b2 \in Bodies, cutover \in {0, 100} :
              sqs = [ queue |-> { [id |-> 1, body |-> b1],
                                  [id |-> 2, body |-> b2] },
                      FXA_LOGIN_CUTOVER_TIMESTAMP |-> cutover,
                      deliveries |-> [i \in Ids |-> 0],
                      submitted |-> [i \in Ids |-> 0],
                      crashed |-> FALSE,
                      last |-> Nil ]

NextSqs ==
    \/ \E m \in sqs.queue : SqsHandle(m)
    \/ SqsRestart

SpecSqs == InitSqs /\ [][NextSqs]_vars

(* the message is an event of a type the consumer has a task for *)
HandledEvent(m) == IsEvent(m.body) /\ Handled(event_type(m.body.Message))

(* the message cannot be processed: its body is no JSON or its event type
   is not handled *)
Unprocessable(m) ==
    /\ m.body # Nil
    /\ \/ "text" \in DOMAIN m.body
       \/ /\ "Message" \in DOMAIN m.body
          /\ \/ "text" \in DOMAIN m.body.Message
             \/ ~Handled(event_type(m.body.Message))

(* C39 as stated: a message leaves the queue only in a turn that submitted
   its event as a task, or when it cannot be processed; a turn in which the
   submission raised leaves it on the queue; so every handled event that
   left the queue was submitted at least once. *)
C39_DeleteAfterSubmit ==
    [][ \A i \in DOMAIN sqs.deliveries :
          \A m \in sqs.queue :
             (m.id = i /\ sqs'.deliveries[i] # sqs.deliveries[i]) =>
                /\ m \notin sqs'.queue =>
                      \/ sqs'.submitted[i] = sqs.submitted[i] + 1
                      \/ Unprocessable(m)
                /\ sqs'.last.outcome = "queue_error" =>
                      /\ m \in sqs'.queue
                      /\ sqs'.submitted[i] = sqs.submitted[i]
                /\ (HandledEvent(m) /\ m \notin sqs'.queue) =>
                      sqs'.submitted[i] >= 1
      ]_vars

(* the login event the cutover proxy lets go: no cutover is set, or the
   event is from before it *)
DroppedLogin(m) ==
    /\ HandledEvent(m)
    /\ event_type(m.body.Message) = <<"login">>
    /\ \/ sqs.FXA_LOGIN_CUTOVER_TIMESTAMP = 0
       \/ /\ "ts" \in DOMAIN m.body.Message
          /\ m.body.Message.ts < sqs.FXA_LOGIN_CUTOVER_TIMESTAMP

(* C39 amended: the same, but a login event that the cutover proxy lets go
   leaves the queue without a task: it is never submitted. *)
C39_DeleteAfterSubmitUnlessDropped ==
    [][ \A i \in DOMAIN sqs.deliveries :
          \A m \in sqs.queue :
             (m.id = i /\ sqs'.deliveries[i] # sqs.deliveries[i]) =>
                /\ m \notin sqs'.queue =>
                      \/ sqs'.submitted[i] = sqs.submitted[i] + 1
                      \/ Unprocessable(m)
                      \/ DroppedLogin(m)
                /\ sqs'.last.outcome = "queue_error" =>
                      /\ m \in sqs'.queue
                      /\ sqs'.submitted[i] = sqs.submitted[i]
                /\ DroppedLogin(m) => sqs'.submitted[i] = 0
                /\ (HandledEvent(m) /\ ~DroppedLogin(m)
                      /\ m \notin sqs'.queue) =>
                      sqs'.submitted[i] >= 1
      ]_vars

(* a verified event was submitted twice: the first turn submitted it and
   could not delete the message *)
C39_Witness ==
    /\ sqs.last # Nil
    /\ sqs.last.msg.id = 1
    /\ HandledEvent(sqs.last.msg)
    /\ event_type(sqs.last.msg.body.Message) = <<"verified">>
    /\ sqs.submitted[1] = 2
    /\ sqs.last.deleted
    /\ \A m \in sqs.queue : m.id # 1

-----------------------------------------------------------------------------
(* process_donation_event, tasks.py:969-1029.  The clock advances by half
   days, so that the day a notification entry lives can pass. *)

donate_notify_key(txn_id) == <<"donate-notify-", txn_id>>

TxnIds == {"tx1", "tx2"}

(* cache.add(key, value, timeout) on the cache c: whether it stored, and
   the cache afterwards *)
cache_add_entry(c, key, value, timeout) ==
    IF c[key].expires > now
    THEN [stored |-> FALSE, cache |-> c]
    ELSE [stored |-> TRUE,
          cache |-> [c EXCEPT ![key] = [value |-> value,
                                        expires |-> now + timeout]]]

(* etype.startswith('charge.dispute.'); an event type is the sequence of its
   parts between dots *)
startswith_charge_dispute(etype) ==
    Len(etype) > 2 /\ SubSeq(etype, 1, 2) = <<"charge", "dispute">>

(* the event is of a status the task does not care about, tasks.py:979-988 *)
IgnoredStatus(etype, status) ==
    IF startswith_charge_dispute(etype)
    THEN status \notin {"charge_refunded", "won", "lost"}
    ELSE IF etype = <<"charge", "refunded">>
    THEN status \notin {"succeeded", "failed", "cancelled"}
    ELSE FALSE

(* gmttime(): the instant ten minutes from now, tasks.py:201-206 *)
gmttime == now + 600

(* The body of process_donation_event with its except clause. *)
ProcessDonationEvent(t) ==
    LET
        (* What SFDC answers to opportunity.update when it holds the record,
           and what SFMC answers to row.post *)
        UpdateAnswers == { "OK", "SalesforceGeneralError" }
        PostResponses ==
            { [status |-> TRUE, results |-> <<"OK">>],
              [status |-> FALSE, results |-> <<"Server", "Error">>] }
    IN
    LET r == task[t]
        data == r.args
        etype == data.event_type
        txn_id == data.transaction_id
        called == [r EXCEPT !.vendorCalled = TRUE]
        reason_lost == IF "reason" \in DOMAIN data THEN data.reason
                       ELSE data.failure_code
        known == \E i \in DOMAIN vendor.opportunity :
                    vendor.opportunity[i].PMT_Transaction_ID__c = txn_id
        e == [type |-> "SalesforceMalformedRequest",
              msg |-> <<"Malformed", "request">>]
        key == donate_notify_key(txn_id)
    IN  /\ r.pc = "running" /\ r.at = "body"
        /\ r.name = full_task_name("process_donation_event")
        /\ IF IgnoredStatus(etype, data.status)
           THEN /\ task' = [task EXCEPT ![t] = Returned(r, FALSE)]
                /\ UNCHANGED <<cache, vendor, FailedTask>>
           ELSE IF known
           THEN \E answer \in UpdateAnswers :
                   IF answer = "OK"
                   THEN /\ vendor' = [vendor EXCEPT !.opportunity =
                              [i \in DOMAIN @ |->
                                 IF @[i].PMT_Transaction_ID__c = txn_id
                                 THEN Merge(@[i],
                                        [ PMT_Type_Lost__c |-> etype,
                                          PMT_Reason_Lost__c |-> reason_lost,
                                          StageName |-> "Closed Lost" ])
                                 ELSE @[i]]]
                        /\ task' = [task EXCEPT ![t] = Returned(r, TRUE)]
                        /\ UNCHANGED <<cache, FailedTask>>
                   ELSE /\ Raise(t, called,
                                 [type |-> answer, msg |-> <<"Server", "Error">>])
                        /\ UNCHANGED <<cache, vendor>>
           ELSE LET do_notify == cache_add_entry(cache, key, 1, 86400)
                    row == [ PMT_Transaction_ID__c |-> txn_id,
                             Payment_Type__c |-> etype,
                             PMT_Reason_Lost__c |-> reason_lost,
                             Error_Text |-> e.msg,
                             Date |-> gmttime ]
                IN  IF do_notify.stored /\ settings.DONATE_UPDATE_FAIL_DE # ""
                    THEN \E resp \in PostResponses :
                            IF assert_response(resp)
                            THEN /\ cache' = do_notify.cache
                                 /\ Raise(t, called,
                                          [type |-> "NewsletterException",
                                           msg |-> resp.results])
                                 /\ UNCHANGED vendor
                            ELSE LET first_mail ==
                                        cache_add_entry(do_notify.cache, key,
                                                        1, 86400)
                                     mail == settings.DONATE_NOTIFY_EMAIL # ""
                                             /\ first_mail.stored
                                 IN  /\ cache' = IF settings.DONATE_NOTIFY_EMAIL # ""
                                                 THEN first_mail.cache
                                                 ELSE do_notify.cache
                                     /\ vendor' = [vendor EXCEPT
                                           !.failures = Append(@, row),
                                           !.mails = IF mail
                                                     THEN Append(@, txn_id)
                                                     ELSE @]
                                     /\ Raise(t, called, e)
                    ELSE LET first_mail ==
                                cache_add_entry(do_notify.cache, key, 1, 86400)
                             mail == do_notify.stored
                                     /\ settings.DONATE_NOTIFY_EMAIL # ""
                                     /\ first_mail.stored
                         IN  /\ cache' = IF do_notify.stored
                                            /\ settings.DONATE_NOTIFY_EMAIL # ""
                                         THEN first_mail.cache
                                         ELSE do_notify.cache
                             /\ vendor' = [vendor EXCEPT
                                   !.mails = IF mail THEN Append(@, txn_id)
                                             ELSE @]
                             /\ Raise(t, called, e)
        /\ UNCHANGED <<settings, now, QueuedTask, ctms, mapper, resolver,
                       upsert, sfmc, sqs>>

(* Half a day passes; entries whose timeout elapsed leave the cache. *)
TickHalfDay ==
    /\ now < MaxTime * 12 * Hour
    /\ now' = now + 12 * Hour
    /\ cache' = [k \in DOMAIN cache |->
                    IF k \in LockKeys
                    THEN IF cache[k] <= now' THEN 0 ELSE cache[k]
                    ELSE IF cache[k].expires <= now' THEN NoEntry
                         ELSE cache[k]]
    /\ UNCHANGED <<settings, task, QueuedTask, FailedTask, ctms, mapper,
                   resolver, vendor, upsert, sfmc, sqs>>

(* Two events on donations; SFDC knows the transaction tx2 only. *)
InitDonationEvents ==
    LET
        DonationEvents ==
            { [ event_type |-> <<"charge", "dispute", "closed">>,
                status |-> "lost", reason |-> "fraudulent" ],
              [ event_type |-> <<"charge", "dispute", "created">>,
                status |-> "needs_response", reason |-> "fraudulent" ],
              [ event_type |-> <<"charge", "refunded">>,
                status |-> "succeeded", reason |-> "requested_by_customer" ],
              [ event_type |-> <<"charge", "failed">>,
                status |-> "failed", failure_code |-> "card_declined" ] }

        Destinations ==
            [ DONATE_UPDATE_FAIL_DE : {"", "Donation_Failures"},
              DONATE_NOTIFY_EMAIL : {"", "donate@example.com"} ]
    IN
        /\ \E d \in Destinations :
              settings = Merge([ MAINTENANCE_MODE |-> FALSE,
                                 READ_ONLY_MODE |-> FALSE,
                                 TASK_LOCKING_ENABLE |-> TRUE,
                                 STORE_TASK_FAILURES |-> TRUE ], d)
        /\ \E e1 \in DonationEvents, txn \in TxnIds :
              task = [t \in Tasks |->
                        NewTask(full_task_name("process_donation_event"),
                                Merge(IF t = 1 THEN e1
                                      ELSE [ event_type |-> <<"charge", "refunded">>,
                                             status |-> "succeeded",
                                             reason |-> "duplicate" ],
                                      [transaction_id |->
                                          IF t = 1 THEN "tx1" ELSE txn]))]
        /\ vendor = Merge([NoVendor EXCEPT !.opportunity =
                               << [ Donation_Contact__c |-> "id1",
                                    PMT_Transaction_ID__c |-> "tx2" ] >>],
                           [ failures |-> <<>>, mails |-> <<>> ])
        /\ cache = [k \in LockKeys \cup { donate_notify_key(x) : x \in TxnIds }
                      |-> IF k \in LockKeys THEN 0 ELSE NoEntry]
        /\ now = 0
        /\ QueuedTask = <<>>
        /\ FailedTask = <<>>
        /\ ctms = CtmsNew(Nil)
        /\ mapper = NoCall
        /\ resolver = NoCall
        /\ upsert = NoCall
        /\ sfmc = NoCall
        /\ sqs = NoCall

NextDonationEvents ==
    \/ \E t \in Tasks : \/ Execute(t)
                        \/ Retry(t)
                        \/ ProcessDonationEvent(t)
    \/ TickHalfDay

SpecDonationEvents == InitDonationEvents /\ [][NextDonationEvents]_vars

(* C40: when the update of invocation t fails because SFDC does not know
   the transaction, the first such failure for the transaction id within 24
   hours writes one row to the failure data extension if
   DONATE_UPDATE_FAIL_DE is set and sends one email if DONATE_NOTIFY_EMAIL
   is set, a later failure within the 24 hours sends nothing, and in every
   case the error leaves the body and the task is retried. *)
C40_NotifiedOncePerDay ==
    [][ \A t \in Tasks :
          LET r == task[t]
              txn_id == r.args.transaction_id
              first == ~(cache[donate_notify_key(txn_id)].expires > now)
              rows == Len(vendor'.failures) - Len(vendor.failures)
              mails == Len(vendor'.mails) - Len(vendor.mails)
          IN  ( /\ r.pc = "running" /\ r.at = "body"
                /\ r.name = full_task_name("process_donation_event")
                /\ task'[t].exc.type = "SalesforceMalformedRequest" ) =>
                 /\ rows = IF first /\ settings.DONATE_UPDATE_FAIL_DE # ""
                           THEN 1 ELSE 0
                 /\ mails = IF first /\ settings.DONATE_NOTIFY_EMAIL # ""
                            THEN 1 ELSE 0
                 /\ task'[t].pc = IF RetryAllowed(r.retries)
                                  THEN "retry_scheduled" ELSE "failed_fatal"
      ]_vars

====
